---- MODULE Spec2Model ----
(***************************************************************************)
(* The memory subsystem of the agent runtime: MemoryService                *)
(* (lib/memory_service.py) with its three tiers -- the Redis primary store *)
(* (records, recency index, importance index), the Pinecone vector index   *)
(* and the in-process fallback cache -- and the list merging done by the   *)
(* agent handlers (lib/agent_manager.py).                                  *)
(*                                                                         *)
(* Conventions.                                                            *)
(*  - A Python Optional is a sequence of length <= 1: None is << >> and a  *)
(*    value x is <<x>>.                                                    *)
(*  - A str is a sequence of one-character strings, so that lower() and    *)
(*    the `in` substring test are computed and not assumed.                *)
(*  - importance is a float in [0,1]; it is kept in hundredths (an integer *)
(*    0..ImpScale), which is exact for int(1 + 89 * importance) on that    *)
(*    grid.                                                                *)
(*  - A dict is a function whose DOMAIN is its key set; memory_cache[a],   *)
(*    whose iteration order the code relies on, is a sequence in insertion *)
(*    order.                                                               *)
(*  - A Redis call that raises has had no effect.                          *)
(***************************************************************************)
EXTENDS Integers, Sequences, FiniteSets, TLC

VARIABLES
    redis_client,       \* BOOLEAN: self.redis_client is set (REDIS_URL configured)
    pinecone_client,    \* BOOLEAN: self.pinecone_client is set
    pinecone_index,     \* BOOLEAN: self.pinecone_index is set
    gemini_enabled,     \* BOOLEAN: embeddings come from the Gemini API (line 186)
    embedding_redis,    \* Redis strings embedding:{md5(text)}: text -> pickled vector
    embedding_cache,    \* self.embedding_cache: text -> vector
    redis_kv,           \* Redis strings: key <<agent_id, memory_id>> -> JSON text
    redis_ttl,          \* Redis TTLs: key -> seconds (DOMAIN = the keys that expire)
    memory_index,       \* Redis zset memory_index:{agent}: member -> score (created_at)
    memory_importance,  \* Redis zset memory_importance:{agent}: member -> score
    pinecone_vectors,   \* Pinecone: namespace -> id -> [values, metadata]
    memory_cache,       \* self.memory_cache: agent -> records in insertion order
    now,                \* int(time.time())
    created,            \* history: the store_memory calls in order, <<agent_id, memory_id, at, args>>
    removed,            \* history: the <<agent_id, memory_id>> a delete/clear was called on
    last                \* the last call: its name, arguments, faults and result

vars == <<redis_client, pinecone_client, pinecone_index, gemini_enabled,
          embedding_redis, embedding_cache, redis_kv, redis_ttl,
          memory_index, memory_importance, pinecone_vectors, memory_cache, now,
          created, removed, last>>

config == <<redis_client, pinecone_client, pinecone_index, gemini_enabled>>

embeddings == <<embedding_redis, embedding_cache>>

----------------------------------------------------------------------------
(* Bounds of the model *)

MaxMem == 1         \* store_memory calls per run of Spec
MaxTime == 2        \* the clock runs 0..MaxTime

(* Program constants *)

ImpScale == 100     \* importance 1.0
MinDays == 1
MaxDays == 90
SecondsPerDay == 86400

Agents == {"a1", "a2"}

----------------------------------------------------------------------------
(* Python values *)

None == << >>
Some(x) == <<x>>

\* bool(x) of an Optional[int]: None and 0 are falsy
TruthyInt(o) == o # None /\ o[1] # 0

\* bool(x) of an Optional[list] / Optional[dict] / Optional[str]
TruthySeq(o) == o # None /\ o[1] # << >>

EmptyDict == [k \in {} |-> << >>]

\* {**a, **b}
DictMerge(a, b) ==
    [k \in (DOMAIN a) \cup (DOMAIN b) |-> IF k \in DOMAIN b THEN b[k] ELSE a[k]]

DictSet(d, k, v) == [x \in (DOMAIN d) \cup {k} |-> IF x = k THEN v ELSE d[x]]

DictDel(d, k) == [x \in (DOMAIN d) \ {k} |-> d[x]]

\* d.get(k) == v
DictGetEq(d, k, v) == k \in DOMAIN d /\ d[k] = v

Range(s) == {s[i] : i \in DOMAIN s}

Upper == {"R", "F", "X"}

LowerChar(c) ==
    CASE c = "R" -> "r"
      [] c = "F" -> "f"
      [] c = "X" -> "x"
      [] OTHER -> c

\* str.lower()
Lower(s) == [i \in DOMAIN s |-> LowerChar(s[i])]

\* q in s (substring)
Contains(q, s) ==
    \E i \in 0..(Len(s) - Len(q)) : \A j \in 1..Len(q) : s[i + j] = q[j]

\* what a failing call raises: a Redis call, a Pinecone call, generate_embedding
\* (text.encode() at line 170), the read of an unbound local variable; all are
\* subclasses of Exception
ExceptionClasses == {"RedisError", "PineconeException", "UnicodeEncodeError",
                     "UnboundLocalError"}

ExceptAllButPinecone(exc) == exc \in ExceptionClasses \ {"PineconeException"}

ExceptNothing(exc) == FALSE

ExceptRedisError(exc) == exc = "RedisError"

\* `except Exception as e:` -- the handler used at every try block of the service
ExceptException(exc) == exc \in ExceptionClasses

----------------------------------------------------------------------------
(* json.dumps / json.loads of a memory record *)

JsonStr(s) == <<"str", s>>
JsonNum(n) == <<"num", n>>
JsonOptStr(o) == IF o = None THEN <<"null">> ELSE <<"str", o[1]>>
JsonOptArr(o) == IF o = None THEN <<"null">> ELSE <<"arr", o[1]>>

UnJsonOpt(j) == IF j[1] = "null" THEN None ELSE Some(j[2])

json_dumps(memory) ==
    [id         |-> JsonStr(memory.id),
     agent_id   |-> JsonStr(memory.agent_id),
     content    |-> JsonStr(memory.content),
     type       |-> JsonStr(memory.type),
     metadata   |-> <<"obj", memory.metadata>>,
     importance |-> JsonNum(memory.importance),
     created_at |-> JsonNum(memory.created_at),
     embedding  |-> JsonOptArr(memory.embedding),
     user_id    |-> JsonOptStr(memory.user_id)]

json_loads_null_as_empty(text) ==
    [id         |-> text.id[2],
     agent_id   |-> text.agent_id[2],
     content    |-> text.content[2],
     type       |-> text.type[2],
     metadata   |-> text.metadata[2],
     importance |-> text.importance[2],
     created_at |-> text.created_at[2],
     embedding  |-> UnJsonOpt(text.embedding),
     user_id    |-> IF text.user_id[1] = "null" THEN Some(<< >>) ELSE Some(text.user_id[2])]

json_loads(text) ==
    [id         |-> text.id[2],
     agent_id   |-> text.agent_id[2],
     content    |-> text.content[2],
     type       |-> text.type[2],
     metadata   |-> text.metadata[2],
     importance |-> text.importance[2],
     created_at |-> text.created_at[2],
     embedding  |-> UnJsonOpt(text.embedding),
     user_id    |-> UnJsonOpt(text.user_id)]

----------------------------------------------------------------------------
(* Redis sorted sets and the fallback cache *)

\* ZADD key {member: score}
ZAdd(zset, member, score) == DictSet(zset, member, score)

\* ZREM key member
ZRem(zset, member) == DictDel(zset, member)

\* Redis orders a sorted set by score, members of equal score lexicographically
ZLess(zset, a, b) == zset[a] < zset[b] \/ (zset[a] = zset[b] /\ a < b)

RECURSIVE ZDescending(_, _)
ZDescending(zset, members) ==
    IF members = {} THEN << >>
    ELSE LET top == CHOOSE m \in members : \A o \in members \ {m} : ZLess(zset, o, m)
         IN <<top>> \o ZDescending(zset, members \ {top})

RECURSIVE ZAscending(_, _)
ZAscending(zset, members) ==
    IF members = {} THEN << >>
    ELSE LET low == CHOOSE m \in members : \A o \in members \ {m} : ZLess(zset, m, o)
         IN <<low>> \o ZAscending(zset, members \ {low})

\* s[:n] for n >= 0
Take(s, n) == SubSeq(s, 1, IF n < Len(s) THEN n ELSE Len(s))

\* ZREVRANGE key 0 stop   (stop >= -1; stop = -1 is the whole set)
ZRevRange(zset, stop) ==
    LET all == ZDescending(zset, DOMAIN zset)
    IN IF stop = -1 THEN all ELSE Take(all, stop + 1)

\* ZRANGE key 0 -1
ZRangeAll(zset) == ZAscending(zset, DOMAIN zset)

\* position of the record with this id in a cache bucket, 0 when absent
CachePos(bucket, memory_id) ==
    IF \E i \in DOMAIN bucket : bucket[i].id = memory_id
    THEN CHOOSE i \in DOMAIN bucket : bucket[i].id = memory_id
    ELSE 0

\* self.memory_cache[agent_id][memory_id] = memory  (a dict keeps a key's first position)
BucketSet(bucket, memory) ==
    LET p == CachePos(bucket, memory.id)
    IN IF p = 0 THEN Append(bucket, memory)
       ELSE [bucket EXCEPT ![p] = memory]

BucketDelNothing(bucket, memory_id) == bucket

\* del self.memory_cache[agent_id][memory_id]
BucketDel(bucket, memory_id) ==
    LET p == CachePos(bucket, memory_id)
    IN IF p = 0 THEN bucket
       ELSE SubSeq(bucket, 1, p - 1) \o SubSeq(bucket, p + 1, Len(bucket))

\* a store that leaves the cache alone
store_in_memory_skipped(cache, agent_id, memory) == cache

\* _store_in_memory
store_in_memory(cache, agent_id, memory) ==
    LET bucket == IF agent_id \in DOMAIN cache THEN cache[agent_id] ELSE << >>
    IN DictSet(cache, agent_id, BucketSet(bucket, memory))

InCache(cache, agent_id, memory_id) ==
    agent_id \in DOMAIN cache /\ CachePos(cache[agent_id], memory_id) # 0

CacheGet(cache, agent_id, memory_id) ==
    cache[agent_id][CachePos(cache[agent_id], memory_id)]

----------------------------------------------------------------------------
(* Embeddings and the vector index *)

EmbDim == 2

\* _generate_local_embedding: a deterministic vector of the configured dimension
generate_local_embedding(text) == [i \in 1..EmbDim |-> (Len(text) + i) % 3]

\* a lone surrogate, the character str.encode() rejects
Surrogate == "\\ud800"

\* text.encode() succeeds
Encodable(text) == \A i \in DOMAIN text : text[i] # Surrogate

\* the vector of a 200 response of the provider that carries embedding.values
gemini_embedding(text) == [i \in 1..EmbDim |-> (Len(text) + i + 1) % 3]

\* what a call of generate_embedding meets: the cache read raises, the cache
\* write-back raises, and the answer of the provider
EmbeddingOutcomes ==
    [get : BOOLEAN, setex : BOOLEAN, provider : {"values", "no_values", "error"}]

EmbeddingNoFault == [get |-> FALSE, setex |-> FALSE, provider |-> "values"]

\* _generate_gemini_embedding: Some(vector), or None when it raises
generate_gemini_embedding(text, provider) ==
    IF provider = "error" THEN None                    \* status_code != 200, line 229
    ELSE IF provider = "no_values" THEN Some(<< >>)    \* .get("values", []), line 233
    ELSE Some(gemini_embedding(text))

\* a generate_embedding that consults and fills no cache
generate_embedding_uncached(text, e) ==
    LET gemini == generate_gemini_embedding(text, e.provider)
    IN [ret |-> IF ~Encodable(text) THEN None
                ELSE IF ~gemini_enabled \/ gemini = None
                THEN Some(generate_local_embedding(text))
                ELSE gemini,
        raised |-> ~Encodable(text), computed |-> Encodable(text),
        redis |-> embedding_redis, cache |-> embedding_cache]

\* generate_embedding, lines 160-210; the cache key md5(text) is taken as the
\* text itself. Gives the vector returned (None when the call raises) and
\* the two caches after the call.
generate_embedding(text, e) ==
    LET hit_redis == redis_client /\ ~e.get /\ text \in DOMAIN embedding_redis
        hit_local == ~hit_redis /\ text \in DOMAIN embedding_cache
        gemini == generate_gemini_embedding(text, e.provider)
        embedding == IF ~gemini_enabled \/ gemini = None
                     THEN generate_local_embedding(text)
                     ELSE gemini[1]
        miss == ~hit_redis /\ ~hit_local
    IN IF ~Encodable(text)                                        \* line 170
       THEN [ret |-> None, raised |-> TRUE, computed |-> FALSE,
             redis |-> embedding_redis, cache |-> embedding_cache]
       ELSE [ret |-> Some(IF hit_redis THEN embedding_redis[text]
                          ELSE IF hit_local THEN embedding_cache[text]
                          ELSE embedding),
             raised |-> FALSE,
             computed |-> miss,       \* the provider or the local generator ran
             redis |-> IF miss /\ redis_client /\ ~e.setex
                       THEN DictSet(embedding_redis, text, embedding)
                       ELSE embedding_redis,
             cache |-> IF miss THEN DictSet(embedding_cache, text, embedding)
                       ELSE embedding_cache]

\* the metadata store_memory sends with the vector (lines 342-349)
PineconeMetadata(memory) ==
    [agent_id   |-> memory.agent_id,
     content    |-> Take(memory.content, 1000),
     type       |-> memory.type,
     importance |-> memory.importance,
     created_at |-> memory.created_at,
     user_id    |-> IF TruthySeq(memory.user_id) THEN memory.user_id[1] ELSE << >>]

\* self.pinecone_index.upsert(vectors=[{id, values, metadata}], namespace=agent_id)
PineconeUpsert(vectors, memory) ==
    [vectors EXCEPT ![memory.agent_id] =
        DictSet(@, memory.id, [values |-> memory.embedding[1],
                               metadata |-> PineconeMetadata(memory)])]

\* _store_in_pinecone, lines 385-457. The nested _upsert_to_pinecone assigns
\* `vector` (lines 410 and 412), so `vector` is a local variable of the nested
\* function and len(vector) at line 405 raises UnboundLocalError on every
\* call; it is not a TypeError or AttributeError (line 444), the handler of
\* line 452 logs it, and no upsert is ever sent.
store_in_pinecone(vectors, memory) ==
    IF ExceptException("UnboundLocalError") THEN vectors
    ELSE PineconeUpsert(vectors, memory)

----------------------------------------------------------------------------
(* Retention *)

\* days_to_keep = int(1 + (90 - 1) * importance), importance >= 0 in hundredths
days_to_keep_rounded(importance) ==
    (MinDays * ImpScale + (MaxDays - MinDays) * importance + ImpScale \div 2) \div ImpScale

days_to_keep(importance) ==
    (MinDays * ImpScale + (MaxDays - MinDays) * importance) \div ImpScale

\* expiry_seconds = days_to_keep * 24 * 60 * 60
expiry_seconds(importance) == days_to_keep(importance) * SecondsPerDay

----------------------------------------------------------------------------
(* Faults: which backend call of a handler raises, and with what *)

NoFault == [f |-> 0, emb |-> FALSE, pine |-> FALSE]

\* f: the number of the primary-store call that raises (0: none);
\* emb: generate_embedding raises; pine: the vector-index call raises
Faults(steps) == [f : 0..steps, emb : BOOLEAN, pine : BOOLEAN]

\* the faults of a handler that calls the primary store only
RedisFaults(steps) == [f : 0..steps, emb : {FALSE}, pine : {FALSE}]

----------------------------------------------------------------------------
(* store_memory, lines 265-383 *)

\* a vector-index step placed outside the block of the primary-store writes
pinecone_step_unordered(writes_ok, embedding) ==
    pinecone_index /\ TruthySeq(embedding)

\* `if self.pinecone_index and embedding` (line 336), reached inside the try
\* block when set, expire and both zadd calls have returned
pinecone_step_reached(writes_ok, embedding) ==
    writes_ok /\ pinecone_index /\ TruthySeq(embedding)

StoreMemory(agent_id, memory_id, a, flt) ==
    LET timestamp == now
        key == <<agent_id, memory_id>>
        emb_escapes == Len(a.content) > 0 /\ flt.emb /\ ~ExceptException("UnicodeEncodeError")
        embedded == Len(a.content) > 0 /\ ~flt.emb
        g == generate_embedding(a.content, EmbeddingNoFault)
        embedding == IF embedded THEN g.ret ELSE None
        memory == [id |-> memory_id, agent_id |-> agent_id, content |-> a.content,
                   type |-> a.type, metadata |-> a.metadata,
                   importance |-> a.importance, created_at |-> timestamp,
                   embedding |-> embedding, user_id |-> a.user_id]
        explicit == TruthyInt(a.expiration)
        \* the primary-store calls in program order: step k completes when
        \* no earlier step raised
        ok1 == ~emb_escapes /\ redis_client /\ flt.f # 1               \* set
        ok2 == ok1 /\ (explicit => flt.f # 2)                          \* expire
        ok3 == ok2 /\ flt.f # 3                                        \* zadd index
        ok4 == ok3 /\ flt.f # 4                                        \* zadd importance
        redis_raised == ~emb_escapes /\ redis_client /\ ~ok4
        pine_attempt == pinecone_step_reached(ok4, embedding)
        pine_done == pine_attempt /\ pinecone_client                   \* line 393
        pine_escapes == pine_done /\ ~ExceptException("UnboundLocalError")
        mirrored == ok4 /\ ~pine_escapes                               \* line 356
        ttl_attempt == mirrored /\ ~explicit
        ttl_done == ttl_attempt /\ flt.f # 5
        ttl_escapes == ttl_attempt /\ flt.f = 5 /\ ~ExceptException("RedisError")
        fallback == redis_raised /\ ExceptException("RedisError")          \* line 378
        escaped == emb_escapes \/ (redis_raised /\ ~fallback) \/ pine_escapes
                   \/ ttl_escapes
        cached == mirrored \/ fallback \/ (~emb_escapes /\ ~redis_client)
        ttl1 == IF ok1 THEN DictDel(redis_ttl, key) ELSE redis_ttl
        ttl2 == IF ok2 /\ explicit THEN DictSet(ttl1, key, a.expiration[1]) ELSE ttl1
    IN /\ \A i \in DOMAIN created : created[i][2] # memory_id          \* uuid4()
       /\ flt.f # 0 => redis_client
       /\ flt.f = 2 => explicit
       /\ flt.f = 5 => ~explicit
       /\ flt.emb => Len(a.content) > 0
       /\ ~flt.pine                        \* no call of the vector index is made
       /\ embedding_redis' = IF embedded THEN g.redis ELSE embedding_redis
       /\ embedding_cache' = IF embedded THEN g.cache ELSE embedding_cache
       /\ redis_kv' = IF ok1 THEN DictSet(redis_kv, key, json_dumps(memory))
                      ELSE redis_kv
       /\ redis_ttl' = IF ttl_done THEN DictSet(ttl2, key, expiry_seconds(a.importance))
                       ELSE ttl2
       /\ memory_index' = IF ok3
                          THEN [memory_index EXCEPT ![agent_id] = ZAdd(@, memory_id, timestamp)]
                          ELSE memory_index
       /\ memory_importance' = IF ok4
                               THEN [memory_importance EXCEPT ![agent_id] =
                                        ZAdd(@, memory_id, a.importance)]
                               ELSE memory_importance
       /\ pinecone_vectors' = IF pine_done THEN store_in_pinecone(pinecone_vectors, memory)
                              ELSE pinecone_vectors
       /\ memory_cache' = IF cached THEN store_in_memory(memory_cache, agent_id, memory)
                          ELSE memory_cache
       /\ created' = Append(created, <<agent_id, memory_id, timestamp, a>>)
       /\ last' = [op |-> "store_memory", agent_id |-> agent_id, memory_id |-> memory_id,
                   args |-> a, flt |-> flt, at |-> timestamp,
                   upsert_attempted |-> pine_attempt,
                   ret |-> IF escaped THEN None ELSE Some(memory_id),
                   raised |-> escaped]
       /\ UNCHANGED <<config, now, removed>>

----------------------------------------------------------------------------
(* get_memory, lines 937-962 *)

\* the call made just before this one, when it was a store, update or delete
\* of the same memory (what a caller holds when it reads a record back)
After(agent_id, memory_id) ==
    IF /\ last.op \in {"store_memory", "update_memory_importance", "delete_memory"}
       /\ last.agent_id = agent_id
       /\ last.memory_id = memory_id
    THEN Some(last)
    ELSE None

GetMemory(agent_id, memory_id, flt) ==
    LET key == <<agent_id, memory_id>>
        escaped == redis_client /\ flt.f = 1 /\ ~ExceptException("RedisError")
        hit == redis_client /\ flt.f # 1 /\ key \in DOMAIN redis_kv
    IN /\ flt.f # 0 => redis_client
       /\ ~flt.emb /\ ~flt.pine
       /\ last' = [op |-> "get_memory", agent_id |-> agent_id, memory_id |-> memory_id,
                   flt |-> flt, after |-> After(agent_id, memory_id),
                   ret |-> IF hit THEN Some(json_loads(redis_kv[key]))
                           ELSE IF ~escaped /\ InCache(memory_cache, agent_id, memory_id)
                           THEN Some(CacheGet(memory_cache, agent_id, memory_id))
                           ELSE None,
                   raised |-> escaped]
       /\ UNCHANGED <<config, embeddings, redis_kv, redis_ttl, memory_index, memory_importance,
                      pinecone_vectors, memory_cache, now, created, removed>>

----------------------------------------------------------------------------
(* update_memory_importance, lines 964-1072 *)

\* lines 995-999: the metadata of the rewritten record
merged_metadata_replacing(metadata, metadata_updates) ==
    IF metadata_updates # EmptyDict THEN metadata_updates ELSE metadata

merged_metadata(metadata, metadata_updates) ==
    IF metadata_updates # EmptyDict THEN DictMerge(metadata, metadata_updates)
    ELSE metadata

update_importance_in_memory_upsert(cache, agent_id, memory_id, importance) ==
    IF InCache(cache, agent_id, memory_id)
    THEN [cache EXCEPT ![agent_id][CachePos(cache[agent_id], memory_id)].importance =
             importance]
    ELSE store_in_memory(cache, agent_id, [id |-> memory_id, importance |-> importance])

\* _update_importance_in_memory
update_importance_in_memory(cache, agent_id, memory_id, importance) ==
    IF InCache(cache, agent_id, memory_id)
    THEN [cache EXCEPT ![agent_id][CachePos(cache[agent_id], memory_id)].importance =
             importance]
    ELSE cache

\* a mirror that leaves the metadata of the cache copy alone
update_cache_copy_importance_only(cache, agent_id, memory_id, importance, metadata_updates) ==
    IF InCache(cache, agent_id, memory_id)
    THEN [cache EXCEPT ![agent_id][CachePos(cache[agent_id], memory_id)].importance =
             importance]
    ELSE cache

\* a mirror that also rewrites the type of the cache copy
update_cache_copy_retyped(cache, agent_id, memory_id, importance, metadata_updates) ==
    IF InCache(cache, agent_id, memory_id)
    THEN LET p == CachePos(cache[agent_id], memory_id)
         IN [cache EXCEPT ![agent_id][p].importance = importance,
                          ![agent_id][p].type = "updated"]
    ELSE cache

\* lines 1036-1045: the mirror of a successful update into the cache
update_cache_copy(cache, agent_id, memory_id, importance, metadata_updates) ==
    IF InCache(cache, agent_id, memory_id)
    THEN LET p == CachePos(cache[agent_id], memory_id)
         IN [cache EXCEPT ![agent_id][p].importance = importance,
                          ![agent_id][p].metadata = merged_metadata(@, metadata_updates)]
    ELSE cache

\* lines 1015-1034: self.pinecone_client.update(id, namespace, set_metadata)
PineconeSetMetadata(vectors, agent_id, memory_id, importance) ==
    IF memory_id \in DOMAIN vectors[agent_id]
    THEN [vectors EXCEPT ![agent_id][memory_id].metadata.importance = importance]
    ELSE vectors

UpdateMemoryImportance(agent_id, memory_id, importance, metadata_updates, flt) ==
    LET key == <<agent_id, memory_id>>
        ok1 == redis_client /\ flt.f # 1                                \* get
        found == ok1 /\ key \in DOMAIN redis_kv
        old == json_loads(redis_kv[key])
        memory == [old EXCEPT !.importance = importance,
                              !.metadata = merged_metadata(@, metadata_updates)]
        ok2 == found /\ flt.f # 2                                       \* set
        ok3 == ok2 /\ flt.f # 3                                         \* zadd importance
        redis_raised == redis_client /\ (~ok1 \/ (found /\ ~ok3))
        pine_attempt == ok3 /\ pinecone_client /\ TruthySeq(memory.embedding)
        pine_done == pine_attempt /\ ~flt.pine
        pine_escapes == pine_attempt /\ flt.pine /\ ~ExceptException("PineconeException")
        fallback == (redis_raised /\ ExceptException("RedisError"))
                    \/ (pine_escapes /\ ExceptException("PineconeException"))
        escaped == (redis_raised \/ pine_escapes) /\ ~fallback
        in_memory == ~redis_client \/ fallback
    IN /\ flt.f # 0 => redis_client
       /\ flt.f \in {2, 3} => key \in DOMAIN redis_kv
       /\ ~flt.emb
       /\ flt.pine => found /\ flt.f = 0 /\ pinecone_client /\ TruthySeq(old.embedding)
       /\ redis_kv' = IF ok2 THEN DictSet(redis_kv, key, json_dumps(memory)) ELSE redis_kv
       /\ redis_ttl' = IF ok2 THEN DictDel(redis_ttl, key) ELSE redis_ttl
       /\ memory_importance' = IF ok3
                               THEN [memory_importance EXCEPT ![agent_id] =
                                        ZAdd(@, memory_id, importance)]
                               ELSE memory_importance
       /\ pinecone_vectors' = IF pine_done
                              THEN PineconeSetMetadata(pinecone_vectors, agent_id,
                                                       memory_id, importance)
                              ELSE pinecone_vectors
       /\ memory_cache' =
            IF in_memory
            THEN update_importance_in_memory(memory_cache, agent_id, memory_id, importance)
            ELSE IF ok3 /\ ~pine_escapes
            THEN update_cache_copy(memory_cache, agent_id, memory_id, importance,
                                   metadata_updates)
            ELSE memory_cache
       /\ last' = [op |-> "update_memory_importance", agent_id |-> agent_id,
                   memory_id |-> memory_id,
                   args |-> [importance |-> importance,
                             metadata_updates |-> metadata_updates],
                   flt |-> flt,
                   before |-> IF found THEN Some(old) ELSE None,
                   ret |-> IF in_memory THEN InCache(memory_cache, agent_id, memory_id)
                           ELSE ok3 /\ ~pine_escapes,
                   raised |-> escaped]
       /\ UNCHANGED <<config, embeddings, memory_index, now, created, removed>>

----------------------------------------------------------------------------
(* retrieve_recent_memories / retrieve_important_memories, lines 473-610 *)

\* bool(memory_type) of an Optional[str]
TruthyStr(o) == o # None /\ o[1] # ""

\* lines 511-518: the record passes the type and metadata filters
PassesFilters(memory, memory_type, metadata_filter) ==
    /\ TruthyStr(memory_type) => memory.type = memory_type[1]
    /\ \A k \in DOMAIN metadata_filter : DictGetEq(memory.metadata, k, metadata_filter[k])

\* the sort key of lines 605 and 607
SortKey(memory, sort_by) ==
    IF sort_by = "timestamp" THEN memory.created_at ELSE memory.importance

\* list.sort(key=..., reverse=True): descending and stable
RECURSIVE SortDescending(_, _)
SortDescending(records, sort_by) ==
    IF records = << >> THEN << >>
    ELSE LET first == CHOOSE i \in DOMAIN records :
                        /\ \A j \in DOMAIN records :
                              SortKey(records[j], sort_by) <= SortKey(records[i], sort_by)
                        /\ \A j \in 1..(i - 1) :
                              SortKey(records[j], sort_by) < SortKey(records[i], sort_by)
         IN <<records[first]>>
            \o SortDescending(SubSeq(records, 1, first - 1)
                              \o SubSeq(records, first + 1, Len(records)), sort_by)

retrieve_from_memory_unsorted(cache, agent_id, sort_by, limit) ==
    IF agent_id \notin DOMAIN cache THEN << >> ELSE Take(cache[agent_id], limit)

\* _retrieve_from_memory, lines 581-610 (limit >= 0)
retrieve_from_memory(cache, agent_id, sort_by, limit) ==
    IF agent_id \notin DOMAIN cache THEN << >>
    ELSE LET agent_memories == cache[agent_id]
             sorted == IF sort_by \in {"timestamp", "importance"}
                       THEN SortDescending(agent_memories, sort_by)
                       ELSE agent_memories
         IN Take(sorted, limit)

\* lines 504-524: fetch the indexed ids in order, filter, stop at `limit`
RECURSIVE RecentLoop(_, _, _, _, _, _)
RecentLoop(agent_id, memory_ids, limit, memory_type, metadata_filter, memories) ==
    IF memory_ids = << >> THEN memories
    ELSE LET key == <<agent_id, Head(memory_ids)>>
             keep == /\ key \in DOMAIN redis_kv
                     /\ PassesFilters(json_loads(redis_kv[key]), memory_type,
                                      metadata_filter)
             found == IF keep THEN Append(memories, json_loads(redis_kv[key]))
                      ELSE memories
         IN IF keep /\ Len(found) >= limit THEN found
            ELSE RecentLoop(agent_id, Tail(memory_ids), limit, memory_type,
                            metadata_filter, found)

\* lines 564-568: fetch the indexed ids in order, skipping missing records
RECURSIVE FetchAll(_, _)
FetchAll(agent_id, memory_ids) ==
    IF memory_ids = << >> THEN << >>
    ELSE LET key == <<agent_id, Head(memory_ids)>>
         IN (IF key \in DOMAIN redis_kv THEN <<json_loads(redis_kv[key])>> ELSE << >>)
            \o FetchAll(agent_id, Tail(memory_ids))

\* the memories are left as they were
MemoriesUnchanged ==
    UNCHANGED <<config, redis_kv, redis_ttl, memory_index, memory_importance,
                pinecone_vectors, memory_cache, now, created, removed>>

ReadOnly == MemoriesUnchanged /\ UNCHANGED embeddings

\* flt.f: 1 the zrevrange raises, 2 a get raises
RetrieveRecentMemories(agent_id, limit, memory_type, metadata_filter, flt) ==
    LET memory_ids == ZRevRange(memory_index[agent_id], limit * 2 - 1)
        raised == redis_client /\ flt.f # 0
        in_memory == ~redis_client \/ (raised /\ ExceptException("RedisError"))
        escaped == raised /\ ~ExceptException("RedisError")
    IN /\ flt.f # 0 => redis_client
       /\ flt.f = 2 => memory_ids # << >>
       /\ ~flt.emb /\ ~flt.pine
       /\ last' = [op |-> "retrieve_recent_memories", agent_id |-> agent_id,
                   limit |-> limit, memory_type |-> memory_type,
                   metadata_filter |-> metadata_filter, flt |-> flt,
                   ret |-> IF escaped THEN << >>
                           ELSE IF in_memory
                           THEN retrieve_from_memory(memory_cache, agent_id,
                                                     "timestamp", limit)
                           ELSE RecentLoop(agent_id, memory_ids, limit, memory_type,
                                           metadata_filter, << >>),
                   raised |-> escaped]
       /\ ReadOnly

\* the list returned, or raised set when the exception escapes
retrieve_important_memories(agent_id, limit, flt) ==
    LET memory_ids == ZRevRange(memory_importance[agent_id], limit - 1)
        raised == redis_client /\ flt.f # 0
        in_memory == ~redis_client \/ (raised /\ ExceptException("RedisError"))
        escaped == raised /\ ~ExceptException("RedisError")
    IN [ret |-> IF escaped THEN << >>
                ELSE IF in_memory
                THEN retrieve_from_memory(memory_cache, agent_id, "importance", limit)
                ELSE FetchAll(agent_id, memory_ids),
        raised |-> escaped]

RetrieveImportantMemories(agent_id, limit, flt) ==
    LET memory_ids == ZRevRange(memory_importance[agent_id], limit - 1)
        r == retrieve_important_memories(agent_id, limit, flt)
    IN /\ flt.f # 0 => redis_client
       /\ flt.f = 2 => memory_ids # << >>
       /\ ~flt.emb /\ ~flt.pine
       /\ last' = [op |-> "retrieve_important_memories", agent_id |-> agent_id,
                   limit |-> limit, flt |-> flt, ret |-> r.ret, raised |-> r.raised]
       /\ ReadOnly

----------------------------------------------------------------------------
(* search_memories, lines 612-808 *)

\* the score the vector index gives a stored vector against the query vector,
\* in hundredths: the share of coordinates on which the two agree
Similarity(u, v) ==
    (ImpScale * Cardinality({i \in 1..EmbDim : u[i] = v[i]})) \div EmbDim

\* self.pinecone_index.query(vector, namespace, top_k, include_metadata=True):
\* the top_k best-scoring vectors of the namespace, best first
RECURSIVE PineconeQuery(_, _, _, _)
PineconeQuery(namespace, ids, vector, top_k) ==
    IF ids = {} \/ top_k <= 0 THEN << >>
    ELSE LET best == CHOOSE i \in ids :
                       \A j \in ids :
                          \/ Similarity(vector, namespace[j].values)
                               < Similarity(vector, namespace[i].values)
                          \/ /\ Similarity(vector, namespace[j].values)
                                  = Similarity(vector, namespace[i].values)
                             /\ i <= j
         IN <<[id |-> best, score |-> Similarity(vector, namespace[best].values),
               metadata |-> namespace[best].metadata]>>
            \o PineconeQuery(namespace, ids \ {best}, vector, top_k - 1)

\* memory["similarity"] = match.get("score")
WithSimilarity(memory, score) ==
    [k \in DOMAIN memory \cup {"similarity"} |->
        IF k = "similarity" THEN score ELSE memory[k]]

HydrateFromMetadata(agent_id, match, redis_fails) ==
    [id |-> match.id, agent_id |-> agent_id,
     content |-> match.metadata.content, type |-> match.metadata.type,
     metadata |-> match.metadata,
     importance |-> match.metadata.importance,
     created_at |-> match.metadata.created_at,
     similarity |-> match.score]

\* lines 684-707: the full record from the primary store, else a record built
\* from the match's metadata
Hydrate(agent_id, match, redis_fails) ==
    LET key == <<agent_id, match.id>>
    IN IF redis_client /\ ~redis_fails /\ key \in DOMAIN redis_kv
       THEN WithSimilarity(json_loads(redis_kv[key]), match.score)
       ELSE [id |-> match.id, agent_id |-> agent_id,
             content |-> match.metadata.content, type |-> match.metadata.type,
             metadata |-> match.metadata,
             importance |-> match.metadata.importance,
             created_at |-> match.metadata.created_at,
             similarity |-> match.score]

\* _search_memories_with_pinecone, lines 645-715, with the index answering
search_memories_with_pinecone(agent_id, query, limit, min_similarity, redis_fails) ==
    LET query_embedding == generate_embedding(query, EmbeddingNoFault).ret[1]
        matches == PineconeQuery(pinecone_vectors[agent_id],
                                 DOMAIN pinecone_vectors[agent_id],
                                 query_embedding, limit)
        kept == SelectSeq(matches, LAMBDA match : ~(match.score < min_similarity))
    IN [i \in DOMAIN kept |-> Hydrate(agent_id, kept[i], redis_fails)]

ContainsCaseSensitive(query, memory) == Contains(query, memory.content)

\* query_lower in memory.get("content", "").lower()
ContainsQuery(query, memory) == Contains(query, Lower(memory.content))

\* lines 752-766 and 794-808: filter on the content, sort on the key
\* (query in content, importance) descending, cut at `limit`; every record that
\* passed the filter has True as the first component of its key
keyword_results(memories, query, limit) ==
    LET results == SelectSeq(memories, LAMBDA memory : ContainsQuery(query, memory))
    IN Take(SortDescending(results, "importance"), limit)

\* _search_in_memory, lines 776-808 (query already lower-cased by the caller)
search_in_memory(cache, agent_id, query, limit) ==
    IF agent_id \notin DOMAIN cache THEN << >>
    ELSE keyword_results(cache[agent_id], query, limit)

\* _search_memories_with_keywords, lines 717-774; f: 0 the primary store
\* answers, 1 the zrange raises, 2 a get raises
search_memories_with_keywords(agent_id, query, limit, f) ==
    LET query_lower == Lower(query)
        memory_ids == ZRangeAll(memory_index[agent_id])
    IN IF redis_client /\ f = 0
       THEN keyword_results(FetchAll(agent_id, memory_ids), query_lower, limit)
       ELSE search_in_memory(memory_cache, agent_id, query_lower, limit)

UseSemanticAlways(use_semantic) == pinecone_index

\* line 633: if self.pinecone_index and use_semantic
UseSemantic(use_semantic) == pinecone_index /\ use_semantic

\* flt.emb: generate_embedding raises; flt.pine: the index query raises;
\* flt.f on the keyword path: 1 the zrange raises, 2 a get raises;
\* flt.f on the semantic path: 1 the gets of line 687 raise
SearchMemories(agent_id, query, limit, min_similarity, use_semantic, flt) ==
    LET semantic == UseSemantic(use_semantic)
        sem_raised == semantic /\ (flt.emb \/ flt.pine)
        sem_escapes == sem_raised
                       /\ ~ExceptException(IF flt.emb THEN "UnicodeEncodeError"
                                           ELSE "PineconeException")
        sem_ok == semantic /\ ~sem_raised
        memory_ids == ZRangeAll(memory_index[agent_id])
        kw_raised == redis_client /\ flt.f # 0
        kw_escapes == ~sem_ok /\ ~sem_escapes /\ kw_raised
                      /\ ~ExceptException("RedisError")
        escaped == sem_escapes \/ kw_escapes
        embedded == semantic /\ ~flt.emb
        g == generate_embedding(query, EmbeddingNoFault)
    IN /\ flt.f # 0 => redis_client
       /\ (flt.emb \/ flt.pine) => (pinecone_index /\ use_semantic)
       /\ ~(flt.emb /\ flt.pine)
       /\ sem_ok => flt.f \in {0, 1}
       /\ (sem_ok /\ flt.f = 1) =>
             search_memories_with_pinecone(agent_id, query, limit, min_similarity,
                                           TRUE) # << >>
       /\ (~sem_ok /\ flt.f = 2) => memory_ids # << >>
       /\ flt.f \in 0..2
       /\ last' = [op |-> "search_memories", agent_id |-> agent_id,
                   query |-> query, limit |-> limit,
                   min_similarity |-> min_similarity,
                   use_semantic |-> use_semantic, flt |-> flt,
                   path |-> IF sem_ok THEN "semantic" ELSE "keyword",
                   ret |-> IF escaped THEN << >>
                           ELSE IF sem_ok
                           THEN search_memories_with_pinecone(
                                    agent_id, query, limit, min_similarity,
                                    flt.f = 1)
                           ELSE search_memories_with_keywords(agent_id, query, limit,
                                                              flt.f),
                   raised |-> escaped]
       /\ embedding_redis' = IF embedded THEN g.redis ELSE embedding_redis
       /\ embedding_cache' = IF embedded THEN g.cache ELSE embedding_cache
       /\ MemoriesUnchanged

----------------------------------------------------------------------------
(* delete_memory, lines 810-875, and clear_agent_memories, lines 878-935 *)

\* lines 845-846 and 870-871: the cache without the record (the agent's
\* bucket stays, also when it becomes empty)
cache_delete(cache, agent_id, memory_id) ==
    IF InCache(cache, agent_id, memory_id)
    THEN [cache EXCEPT ![agent_id] = BucketDel(@, memory_id)]
    ELSE cache

\* a delete that names no namespace
PineconeDeleteEverywhere(vectors, agent_id, memory_id) ==
    [a \in DOMAIN vectors |-> DictDel(vectors[a], memory_id)]

\* self.pinecone_index.delete(ids=[memory_id], namespace=agent_id)
PineconeDelete(vectors, agent_id, memory_id) ==
    [vectors EXCEPT ![agent_id] = DictDel(@, memory_id)]

\* flt.f: 1 the delete of the record raises, 2 the first zrem, 3 the second zrem
DeleteMemory(agent_id, memory_id, flt) ==
    LET key == <<agent_id, memory_id>>
        ok1 == redis_client /\ flt.f # 1
        ok2 == ok1 /\ flt.f # 2
        ok3 == ok2 /\ flt.f # 3
        redis_raised == redis_client /\ ~ok3
        pine_attempt == ok3 /\ pinecone_index
        pine_done == pine_attempt /\ ~flt.pine
        pine_escapes == pine_attempt /\ flt.pine /\ ~ExceptException("PineconeException")
        fallback == (redis_raised /\ ExceptException("RedisError"))
                    \/ (pine_escapes /\ ExceptException("PineconeException"))
        escaped == (redis_raised \/ pine_escapes) /\ ~fallback
        in_memory == ~redis_client \/ fallback
        completed == ok3 /\ ~pine_escapes
    IN /\ flt.f # 0 => redis_client
       /\ ~flt.emb
       /\ flt.pine => pinecone_index /\ redis_client /\ flt.f = 0
       /\ redis_kv' = IF ok1 THEN DictDel(redis_kv, key) ELSE redis_kv
       /\ redis_ttl' = IF ok1 THEN DictDel(redis_ttl, key) ELSE redis_ttl
       /\ memory_index' = IF ok2 THEN [memory_index EXCEPT ![agent_id] = ZRem(@, memory_id)]
                          ELSE memory_index
       /\ memory_importance' = IF ok3
                               THEN [memory_importance EXCEPT ![agent_id] =
                                        ZRem(@, memory_id)]
                               ELSE memory_importance
       /\ pinecone_vectors' = IF pine_done
                              THEN PineconeDelete(pinecone_vectors, agent_id, memory_id)
                              ELSE pinecone_vectors
       /\ memory_cache' = IF completed \/ in_memory
                          THEN cache_delete(memory_cache, agent_id, memory_id)
                          ELSE memory_cache
       /\ removed' = removed \cup {key}
       /\ last' = [op |-> "delete_memory", agent_id |-> agent_id, memory_id |-> memory_id,
                   flt |-> flt,
                   ret |-> IF in_memory THEN InCache(memory_cache, agent_id, memory_id)
                           ELSE completed,
                   raised |-> escaped]
       /\ UNCHANGED <<config, embeddings, now, created>>

\* flt.f: 1 the zrange raises, 2 a delete of a record raises after `done`
\* records were deleted, 3 / 4 the delete of the first / second index raises
ClearAgentMemories(agent_id, flt, done) ==
    LET memory_ids == ZRangeAll(memory_index[agent_id])
        ok1 == redis_client /\ flt.f # 1
        ok2 == ok1 /\ flt.f # 2
        ok3 == ok2 /\ flt.f # 3
        ok4 == ok3 /\ flt.f # 4
        n == IF ok2 THEN Len(memory_ids) ELSE IF ok1 THEN done ELSE 0
        deleted == {<<agent_id, memory_ids[i]>> : i \in 1..n}
        redis_raised == redis_client /\ ~ok4
        fallback == redis_raised /\ ExceptException("RedisError")
        in_memory == ~redis_client \/ fallback
    IN /\ flt.f # 0 => redis_client
       /\ ~flt.emb /\ ~flt.pine
       /\ IF flt.f = 2 THEN done < Len(memory_ids) ELSE done = 0
       /\ redis_kv' = [k \in (DOMAIN redis_kv) \ deleted |-> redis_kv[k]]
       /\ redis_ttl' = [k \in (DOMAIN redis_ttl) \ deleted |-> redis_ttl[k]]
       /\ memory_index' = IF ok3 THEN [memory_index EXCEPT ![agent_id] = EmptyDict]
                          ELSE memory_index
       /\ memory_importance' = IF ok4
                               THEN [memory_importance EXCEPT ![agent_id] = EmptyDict]
                               ELSE memory_importance
       /\ memory_cache' = IF ok4 \/ in_memory THEN DictDel(memory_cache, agent_id)
                          ELSE memory_cache
       /\ removed' = removed \cup {<<agent_id, created[i][2]>> :
                                      i \in {j \in DOMAIN created : created[j][1] = agent_id}}
       /\ last' = [op |-> "clear_agent_memories", agent_id |-> agent_id, flt |-> flt,
                   ret |-> IF in_memory THEN agent_id \in DOMAIN memory_cache ELSE ok4,
                   raised |-> redis_raised /\ ~fallback]
       /\ UNCHANGED <<config, embeddings, pinecone_vectors, now, created>>

----------------------------------------------------------------------------
(* The environment: the clock, and Redis expiring a key whose TTL has run out *)

Tick(max) ==
    /\ now < max
    /\ now' = now + 1
    /\ UNCHANGED <<config, embeddings, redis_kv, redis_ttl, memory_index, memory_importance,
                   pinecone_vectors, memory_cache, created, removed, last>>

ExpireKey(key) ==
    /\ key \in DOMAIN redis_ttl
    /\ key \in DOMAIN redis_kv
    /\ redis_kv' = DictDel(redis_kv, key)
    /\ redis_ttl' = DictDel(redis_ttl, key)
    /\ UNCHANGED <<config, embeddings, memory_index, memory_importance, pinecone_vectors,
                   memory_cache, now, created, removed, last>>

\* The vector index is a shared, persistent service: initialize_pinecone
\* connects to the index when it already exists (lines 101-103), with
\* whatever vectors it holds. Another writer upserts the vector of a record
\* in the form store_memory prepares (lines 337-352).
ExternalUpsert(memory) ==
    /\ pinecone_index
    /\ memory.embedding # None
    /\ pinecone_vectors' = PineconeUpsert(pinecone_vectors, memory)
    /\ UNCHANGED <<config, embeddings, redis_kv, redis_ttl, memory_index, memory_importance,
                   memory_cache, now, created, removed, last>>

----------------------------------------------------------------------------
(* The state after construction (lines 36-71): empty cache; the model starts
   the backends empty as well *)

Configs == {c \in [redis : BOOLEAN, client : BOOLEAN, index : BOOLEAN] :
                c.index => c.client}

InitState(c, gemini) ==
    /\ redis_client = c.redis
    /\ pinecone_client = c.client
    /\ pinecone_index = c.index
    /\ gemini_enabled = gemini
    /\ embedding_redis = EmptyDict
    /\ embedding_cache = EmptyDict
    /\ redis_kv = EmptyDict
    /\ redis_ttl = EmptyDict
    /\ memory_index = [a \in Agents |-> EmptyDict]
    /\ memory_importance = [a \in Agents |-> EmptyDict]
    /\ pinecone_vectors = [a \in Agents |-> EmptyDict]
    /\ memory_cache = EmptyDict
    /\ now = 0
    /\ created = << >>
    /\ removed = {}
    /\ last = [op |-> "init"]

\* MEMORY_ENABLE_LOCAL_EMBEDDING defaults to true: embeddings are made locally
InitWith(c) == InitState(c, FALSE)

----------------------------------------------------------------------------
(* Spec: an agent stores records and reads them back, with every backend call
   free to fail and keys free to expire *)

\* the records callers store (agent_manager.py stores conversations and events)
Payloads ==
    {[content |-> << >>, type |-> "system", metadata |-> EmptyDict,
      importance |-> 0, user_id |-> None, expiration |-> None],
     [content |-> <<"h", "i">>, type |-> "interaction",
      metadata |-> [tokens |-> 3, model |-> "m"],
      importance |-> 70, user_id |-> Some(<<"u", "1">>), expiration |-> None],
     [content |-> <<"R", "e">>, type |-> "interaction", metadata |-> EmptyDict,
      importance |-> 100, user_id |-> None, expiration |-> Some(60)],
     [content |-> <<"x">>, type |-> "system", metadata |-> [tokens |-> 3, model |-> "m"],
      importance |-> 50, user_id |-> Some(<<"u", "1">>), expiration |-> Some(3600)]}

Init == \E c \in Configs : InitWith(c)

Store ==
    \E id \in 1..MaxMem, a \in Payloads, flt \in Faults(5) :
        StoreMemory("a1", id, a, flt)

Get ==
    \E id \in 1..MaxMem, flt \in RedisFaults(1) : GetMemory("a1", id, flt)

Expire == \E key \in DOMAIN redis_ttl : ExpireKey(key)

Next == Store \/ Get \/ Expire

Spec == Init /\ [][Next]_vars

----------------------------------------------------------------------------
(* Claims checked under Spec *)

\* C1: round trip. A get_memory made right after the store_memory that
\* returned the id, for the same agent, returns a record whose content, type,
\* importance, user_id and agent_id are the stored ones -- whatever step of
\* the store or of the get failed, with or without a primary store, and also
\* when the key has expired in between.
C1_RoundTrip ==
    (last.op = "get_memory" /\ last.after # None /\ last.after[1].op = "store_memory")
    => /\ ~last.raised
       /\ last.ret # None
       /\ last.ret[1].content = last.after[1].args.content
       /\ last.ret[1].type = last.after[1].args.type
       /\ last.ret[1].importance = last.after[1].args.importance
       /\ last.ret[1].user_id = last.after[1].args.user_id
       /\ last.ret[1].agent_id = last.agent_id
       /\ last.ret[1].id = last.memory_id

\* a record with no user_id was written to the primary store and read back
\* from it as JSON
C1_Witness ==
    /\ last.op = "get_memory"
    /\ last.after # None
    /\ last.after[1].op = "store_memory"
    /\ last.after[1].flt.f = 0
    /\ last.after[1].args.user_id = None
    /\ redis_client
    /\ last.flt.f = 0
    /\ <<last.agent_id, last.memory_id>> \in DOMAIN redis_kv
    /\ last.ret # None

\* C2: store_memory returns the generated id and never raises, whichever of
\* generate_embedding, the primary-store calls (set, expire, zadd, zadd,
\* expire) and the vector-index upsert fails.
C2_StoreReturnsId ==
    last.op = "store_memory"
    => /\ ~last.raised
       /\ last.ret = Some(last.memory_id)

\* the embedding failed and the second zadd raised; the id still came back
C2_Witness ==
    /\ last.op = "store_memory"
    /\ last.flt.emb
    /\ last.flt.f = 4
    /\ last.ret = Some(last.memory_id)

----------------------------------------------------------------------------
(* SpecTTL: one store_memory call, for every importance of the grid, with and
   without an explicit expiration *)

Expirations == {None, Some(60), Some(3600)}

TTLArgs ==
    {[content |-> <<"h", "i">>, type |-> "interaction", metadata |-> EmptyDict,
      importance |-> i, user_id |-> None, expiration |-> e] :
        i \in 0..ImpScale, e \in Expirations}

StoreTTL == \E a \in TTLArgs, flt \in Faults(5) : StoreMemory("a1", 1, a, flt)

NextTTL == StoreTTL \/ Expire

SpecTTL == Init /\ [][NextTTL]_vars

----------------------------------------------------------------------------
(* SpecUpd: a stored record is re-scored and its metadata updated, then read
   back; every backend call may fail and the key may expire *)

UpdPayloads ==
    {[content |-> <<"h", "i">>, type |-> "interaction", metadata |-> EmptyDict,
      importance |-> 70, user_id |-> None, expiration |-> None],
     [content |-> <<"h", "i">>, type |-> "interaction",
      metadata |-> [tokens |-> 3, model |-> "m"],
      importance |-> 70, user_id |-> Some(<<"u", "1">>), expiration |-> Some(60)]}

\* agent_manager.py, lines 396-411, re-scores a conversation to 0.9 or 0.8
NewImportances == {90, 80}

MetadataUpdates == {EmptyDict, [important |-> TRUE], [tokens |-> 4]}

StoreUpd == \E a \in UpdPayloads, flt \in RedisFaults(5) : StoreMemory("a1", 1, a, flt)

Update ==
    \E i \in NewImportances, u \in MetadataUpdates, flt \in Faults(3) :
        UpdateMemoryImportance("a1", 1, i, u, flt)

GetUpd == \E flt \in RedisFaults(1) : GetMemory("a1", 1, flt)

NextUpd == StoreUpd \/ Update \/ GetUpd \/ Expire

InitUpd == \E c \in {x \in Configs : x.client = x.index} : InitWith(c)

SpecUpd == InitUpd /\ [][NextUpd]_vars


\* the shallow merge of the claim: keys of the update overwrite, every other
\* existing key is preserved, and nothing else appears
IsShallowMerge(merged, old, updates) ==
    /\ DOMAIN merged = (DOMAIN old) \cup (DOMAIN updates)
    /\ \A k \in DOMAIN updates : merged[k] = updates[k]
    /\ \A k \in (DOMAIN old) \ (DOMAIN updates) : merged[k] = old[k]

\* an update_memory_importance call that found the record and whose
\* primary-store calls all succeeded
UpdatedInPrimary(call) ==
    /\ call.op = "update_memory_importance"
    /\ redis_client
    /\ call.flt.f = 0
    /\ call.before # None

\* C10: update_memory_importance on an existing record with the primary store
\* available returns true, leaves the record with the new importance and with
\* the shallow merge of its metadata and metadata_updates, and sets the
\* score of the importance index to the new value; a get_memory that follows,
\* the primary store still available, returns the new importance and the
\* merged metadata.
C10_UpdateInPrimary ==
    /\ UpdatedInPrimary(last)
       => LET key == <<last.agent_id, last.memory_id>>
              memory == json_loads(redis_kv[key])
          IN /\ last.ret = TRUE
             /\ ~last.raised
             /\ memory.importance = last.args.importance
             /\ IsShallowMerge(memory.metadata, last.before[1].metadata,
                               last.args.metadata_updates)
             /\ last.memory_id \in DOMAIN memory_importance[last.agent_id]
             /\ memory_importance[last.agent_id][last.memory_id] = last.args.importance
    /\ (last.op = "get_memory" /\ last.flt.f = 0 /\ last.after # None
        /\ UpdatedInPrimary(last.after[1]))
       => /\ last.ret # None
          /\ last.ret[1].importance = last.after[1].args.importance
          /\ IsShallowMerge(last.ret[1].metadata, last.after[1].before[1].metadata,
                            last.after[1].args.metadata_updates)

\* the update overwrote "tokens", kept "model", and the record was read back
C10_Witness ==
    /\ last.op = "get_memory"
    /\ last.after # None
    /\ UpdatedInPrimary(last.after[1])
    /\ last.after[1].before[1].metadata = [tokens |-> 3, model |-> "m"]
    /\ last.after[1].args.metadata_updates = [tokens |-> 4]
    /\ last.ret # None
    /\ last.ret[1].metadata = [tokens |-> 4, model |-> "m"]
    /\ last.ret[1].importance = 90

----------------------------------------------------------------------------
(* SpecRecent: an agent stores records as the clock advances and lists them
   by recency; the primary store is up or down at each call *)

MaxList == 3

ListPayload(importance) ==
    [content |-> <<"h", "i">>, type |-> "interaction", metadata |-> EmptyDict,
     importance |-> importance, user_id |-> None, expiration |-> None]

InitRecent == \E c \in {x \in Configs : ~x.client} : InitWith(c)

\* ids are handed out in ascending or in descending order, so that the order
\* of the ids and the order of the stores differ in some behaviours
StoreRecent ==
    \E id \in {Len(created) + 1, MaxList - Len(created)}, flt \in RedisFaults(1) :
        /\ Len(created) < MaxList
        /\ StoreMemory("a1", id, ListPayload(50), flt)

TickRecent == Tick(MaxTime)

RetrieveRecent ==
    \E limit \in 1..MaxList, flt \in RedisFaults(2) :
        RetrieveRecentMemories("a1", limit, None, EmptyDict, flt)

NextRecent == StoreRecent \/ TickRecent \/ RetrieveRecent

SpecRecent == InitRecent /\ [][NextRecent]_vars

\* the ids of a list of records, in order
IdsOf(records) == [i \in DOMAIN records |-> records[i].id]

\* the ids store_memory has returned, newest first
NewestFirst == [i \in DOMAIN created |-> created[Len(created) + 1 - i][2]]

\* no write reached the primary store and the call just made was not served
\* by it
PrimaryUnavailable ==
    \/ ~redis_client
    \/ (last.flt.f # 0 /\ redis_kv = EmptyDict /\ memory_index["a1"] = EmptyDict)

\* C3: fallback transparency. With the primary store unavailable, three
\* records stored for one agent and then retrieve_recent_memories(agent, 3):
\* the call succeeds and returns exactly those three, the most recently
\* stored first -- whatever seconds the three stores fell in.
C3_FallbackNewestFirst ==
    (last.op = "retrieve_recent_memories" /\ last.limit = 3 /\ Len(created) = 3
     /\ PrimaryUnavailable)
    => /\ ~last.raised
       /\ IdsOf(last.ret) = NewestFirst

\* every record of the agent was written to the primary store and indexed
AllInPrimary ==
    \A i \in DOMAIN created :
        /\ <<created[i][1], created[i][2]>> \in DOMAIN redis_kv
        /\ created[i][2] \in DOMAIN memory_index[created[i][1]]

\* C4: recency ordering. N records stored with strictly increasing
\* created_at, then retrieve_recent_memories(agent, N) without a filter:
\* all N come back in strictly decreasing created_at order, when the primary
\* store served every call and when the fallback cache serves the retrieval.
C4_RecencyOrdering ==
    (/\ last.op = "retrieve_recent_memories"
     /\ last.memory_type = None /\ last.metadata_filter = EmptyDict
     /\ Len(created) >= 1
     /\ last.limit = Len(created)
     /\ \A i \in 1..(Len(created) - 1) : created[i][3] < created[i + 1][3]
     /\ \/ (redis_client /\ last.flt.f = 0 /\ AllInPrimary)
        \/ ~redis_client
        \/ last.flt.f # 0)
    => /\ Len(last.ret) = Len(created)
       /\ IdsOf(last.ret) = NewestFirst
       /\ \A i \in 1..(Len(last.ret) - 1) :
             last.ret[i].created_at > last.ret[i + 1].created_at

\* three records stored one second apart and listed from the primary store
C4_Witness ==
    /\ last.op = "retrieve_recent_memories"
    /\ redis_client /\ last.flt.f = 0 /\ AllInPrimary
    /\ Len(created) = 3
    /\ \A i \in 1..2 : created[i][3] < created[i + 1][3]
    /\ last.limit = 3
    /\ Len(last.ret) = 3

----------------------------------------------------------------------------
(* SpecImp: records are stored, re-scored and listed by importance, with
   every primary-store call free to fail *)

MaxImp == 2

StoreImp ==
    \E id \in 1..MaxImp, i \in {30, 70}, flt \in RedisFaults(5) :
        StoreMemory("a1", id, ListPayload(i), flt)

UpdateImp ==
    \E id \in 1..MaxImp, flt \in RedisFaults(3) :
        UpdateMemoryImportance("a1", id, 80, EmptyDict, flt)

RetrieveImportant ==
    \E limit \in 1..MaxImp, flt \in RedisFaults(2) :
        RetrieveImportantMemories("a1", limit, flt)

NextImp == StoreImp \/ UpdateImp \/ RetrieveImportant

SpecImp == InitRecent /\ [][NextImp]_vars

\* C5: importance ordering. The records retrieve_important_memories returns,
\* when their importance values are pairwise distinct, are sorted by their
\* current importance, highest first -- after any stores and updates,
\* including ones in which a primary-store call failed.
C5_ImportanceOrdering ==
    (/\ last.op = "retrieve_important_memories"
     /\ \A i, j \in DOMAIN last.ret :
           i # j => last.ret[i].importance # last.ret[j].importance)
    => \A i \in 1..(Len(last.ret) - 1) :
          last.ret[i].importance > last.ret[i + 1].importance

----------------------------------------------------------------------------
(* SpecDel: an agent stores records, deletes some, clears all, and reads and
   lists what is left; the primary store, where configured, answers every
   call *)

MaxDel == 5

InitDel == \E c \in {x \in Configs : x.client = x.index} : InitWith(c)

\* the ids are taken in order: every record has the same payload and
\* created_at here, so which id a store draws changes nothing but names
StoreDel ==
    /\ Len(created) < MaxDel
    /\ StoreMemory("a1", Len(created) + 1, ListPayload(50), NoFault)

DeleteDel ==
    \E id \in 1..MaxDel, pine \in BOOLEAN :
        /\ \E i \in DOMAIN created : created[i][2] = id
        /\ DeleteMemory("a1", id, [f |-> 0, emb |-> FALSE, pine |-> pine])

ClearDel == ClearAgentMemories("a1", NoFault, 0)

GetDel == \E id \in 1..MaxDel : GetMemory("a1", id, NoFault)

RetrieveDel == RetrieveRecentMemories("a1", MaxDel, None, EmptyDict, NoFault)

NextDel == StoreDel \/ DeleteDel \/ ClearDel \/ GetDel \/ RetrieveDel

SpecDel == InitDel /\ [][NextDel]_vars

\* the records stored for the agent and not deleted or cleared since
Remaining(agent_id) ==
    {created[i][2] : i \in {j \in DOMAIN created : created[j][1] = agent_id}}
    \ {k[2] : k \in {r \in removed : r[1] = agent_id}}

\* C6: delete then clear. After delete_memory of one of an agent's records
\* exactly the others are retrievable, by get_memory and by
\* retrieve_recent_memories, and the deleted one is not found; after
\* clear_agent_memories none is; with the primary store and with the
\* fallback cache alone. (5 records, one deleted: 4; cleared: 0.)
C6_DeleteThenClear ==
    /\ last.op = "get_memory"
       => (last.ret # None <=> last.memory_id \in Remaining(last.agent_id))
    /\ last.op = "retrieve_recent_memories"
       => /\ Range(IdsOf(last.ret)) = Remaining(last.agent_id)
          /\ Len(last.ret) = Cardinality(Remaining(last.agent_id))
    /\ last.op \in {"delete_memory", "clear_agent_memories"} => ~last.raised

\* five records stored, one deleted, four listed
C6_Witness ==
    /\ last.op = "retrieve_recent_memories"
    /\ Len(created) = 5
    /\ Cardinality(removed) = 1
    /\ Len(last.ret) = 4

----------------------------------------------------------------------------
(* SpecSearch: stored records of mixed case and importance, then
   search_memories over them, with and without the vector index *)

MaxSearch == 3

SearchContents == {<<"p", "R", "f">>, <<"r", "f", "x">>, <<"r", "x", "f">>}

SearchQueries == {<<"R", "f">>, <<"x">>}

SearchPayload(content, importance) ==
    [content |-> content, type |-> "interaction", metadata |-> EmptyDict,
     importance |-> importance, user_id |-> None, expiration |-> None]

InitSearch == \E c \in {x \in Configs : x.client = x.index} : InitWith(c)

\* every content is stored once for "a1", in any order and with either
\* importance; "a2" stores one record that matches every query
StoreSearch ==
    /\ Len(created) < MaxSearch
    /\ \/ \E content \in SearchContents, importance \in {30, 70} :
             /\ \A i \in DOMAIN created :
                   created[i][1] = "a1" => created[i][4].content # content
             /\ StoreMemory("a1", Len(created) + 1,
                            SearchPayload(content, importance), NoFault)
       \/ /\ \A i \in DOMAIN created : created[i][1] # "a2"
          /\ StoreMemory("a2", Len(created) + 1,
                         SearchPayload(<<"r", "f", "x">>, 70), NoFault)

\* the semantic path is asked for with one of the queries
Search ==
    \E query \in SearchQueries, limit \in 1..2, use_semantic \in BOOLEAN,
       flt \in Faults(2) :
        /\ use_semantic => query = <<"x">>
        /\ SearchMemories("a1", query, limit, 60, use_semantic, flt)

NextSearch == StoreSearch \/ Search

SpecSearch == InitSearch /\ [][NextSearch]_vars

\* q occurs in s as a substring when letter case is ignored
CaseInsensitiveSubstring(q, s) ==
    \E off \in 0..(Len(s) - Len(q)) :
        \A j \in 1..Len(q) : LowerChar(s[off + j]) = LowerChar(q[j])

\* the store_memory calls of the searched agent whose content matches the query
Matching ==
    {i \in DOMAIN created :
        /\ created[i][1] = last.agent_id
        /\ CaseInsensitiveSubstring(last.query, created[i][4].content)}

KeywordSearchDone ==
    last.op = "search_memories" /\ last.path = "keyword" /\ ~last.raised

\* C7: keyword search. A search_memories call answered by keyword matching
\* returns only records of the agent whose content contains the query as a
\* case-insensitive substring, each at most once, in non-increasing order of
\* importance; it returns min(limit, number of matching records) of them, and
\* no matching record left out has a higher importance than one returned.
C7_KeywordSearch ==
    KeywordSearchDone =>
        /\ Len(last.ret) = IF Cardinality(Matching) < last.limit
                           THEN Cardinality(Matching) ELSE last.limit
        /\ \A k \in DOMAIN last.ret :
              \E i \in Matching :
                 /\ created[i][2] = last.ret[k].id
                 /\ created[i][4].content = last.ret[k].content
                 /\ created[i][4].importance = last.ret[k].importance
        /\ \A k, l \in DOMAIN last.ret :
              k < l => /\ last.ret[k].id # last.ret[l].id
                       /\ last.ret[k].importance >= last.ret[l].importance
        /\ \A i \in Matching :
              (\A k \in DOMAIN last.ret : last.ret[k].id # created[i][2]) =>
                 \A k \in DOMAIN last.ret :
                    last.ret[k].importance >= created[i][4].importance

\* three records of the agent, two of which contain the query in another
\* letter case; the search returns exactly those two, the more important one
\* (stored later) first
C7_Witness ==
    /\ KeywordSearchDone
    /\ last.query = <<"R", "f">>
    /\ Cardinality({i \in DOMAIN created : created[i][1] = "a1"}) = 3
    /\ Cardinality(Matching) = 2
    /\ Len(last.ret) = 2
    /\ last.ret[1].importance > last.ret[2].importance
    /\ last.ret[1].id > last.ret[2].id
    /\ last.ret[2].content = <<"p", "R", "f">>

----------------------------------------------------------------------------
(* Merging the memory lists in the agent handlers (agent_manager.py) *)

\* for memory in extra: if memory['id'] not in memory_ids: memories.append(memory)
\* -- and, where the handler has the line, memory_ids.add(memory['id'])
RECURSIVE AppendUnseen(_, _, _, _)
AppendUnseen(memories, memory_ids, extra, adds_id) ==
    IF extra = << >> THEN [memories |-> memories, memory_ids |-> memory_ids]
    ELSE LET memory == Head(extra)
             unseen == memory.id \notin memory_ids
         IN AppendUnseen(IF unseen THEN Append(memories, memory) ELSE memories,
                         IF unseen /\ adds_id THEN memory_ids \cup {memory.id}
                         ELSE memory_ids,
                         Tail(extra), adds_id)

\* memory_ids = set(memory['id'] for memory in memories)
IdSet(memories) == {memories[i].id : i \in DOMAIN memories}

\* _execute_generic_agent, lines 304-335: memories, then relevant_memories
merge_generic(recent, important_memories, search_results) ==
    LET combined == AppendUnseen(recent, IdSet(recent), important_memories, TRUE)
        relevant == AppendUnseen(<< >>, combined.memory_ids, search_results, FALSE)
    IN [memories |-> combined.memories, relevant_memories |-> relevant.memories]

\* _execute_seo_agent, lines 479-509
merge_seo(recent_memories, important_memories, search_memories) ==
    LET combined == AppendUnseen(recent_memories, IdSet(recent_memories),
                                 important_memories, FALSE)
        merged == AppendUnseen(combined.memories, combined.memory_ids,
                               search_memories, TRUE)
    IN merged.memories

MaxMergeId == 3

\* what a retrieval can return: at most `limit` records, with distinct ids
MemoryLists(limit) ==
    {<< >>}
    \cup {<<[id |-> i]>> : i \in 1..MaxMergeId}
    \cup {s \in {<<[id |-> i], [id |-> j]>> : i, j \in 1..MaxMergeId} :
             limit >= 2 /\ s[1].id # s[2].id}
    \cup {s \in {<<[id |-> i], [id |-> j], [id |-> k]>> : i, j, k \in 1..MaxMergeId} :
             limit >= 3 /\ s[1].id # s[2].id /\ s[1].id # s[3].id /\ s[2].id # s[3].id}

\* the three lists the handlers obtain from the memory service
InitMerge ==
    /\ redis_client = TRUE
    /\ pinecone_client = FALSE
    /\ pinecone_index = FALSE
    /\ gemini_enabled = FALSE
    /\ embedding_redis = EmptyDict
    /\ embedding_cache = EmptyDict
    /\ redis_kv = EmptyDict
    /\ redis_ttl = EmptyDict
    /\ memory_index = [a \in Agents |-> EmptyDict]
    /\ memory_importance = [a \in Agents |-> EmptyDict]
    /\ pinecone_vectors = [a \in Agents |-> EmptyDict]
    /\ memory_cache = EmptyDict
    /\ now = 0
    /\ created = << >>
    /\ removed = {}
    /\ \E recent \in MemoryLists(3), important \in MemoryLists(3),
          search \in MemoryLists(3) :
          last = [op |-> "memory_lists", recent |-> recent,
                  important |-> important, search |-> search]

\* lines 307, 310 and 323-328: limits 3, 3 and 3
ExecuteGenericAgent ==
    /\ last.op = "memory_lists"
    /\ LET merged == merge_generic(last.recent, last.important, last.search)
       IN last' = [op |-> "execute_generic_agent", recent |-> last.recent,
                   important |-> last.important, search |-> last.search,
                   view |-> merged.memories \o merged.relevant_memories]
    /\ ReadOnly

\* lines 484-505: limits 3, 2 and 2
ExecuteSeoAgent ==
    /\ last.op = "memory_lists"
    /\ Len(last.important) <= 2
    /\ Len(last.search) <= 2
    /\ last' = [op |-> "execute_seo_agent", recent |-> last.recent,
                important |-> last.important, search |-> last.search,
                view |-> merge_seo(last.recent, last.important, last.search)]
    /\ ReadOnly

NextMerge == ExecuteGenericAgent \/ ExecuteSeoAgent

SpecMerge == InitMerge /\ [][NextMerge]_vars

\* C8: dedup on merge. The view a handler builds from the recent, important
\* and search lists (each list free of repeated ids) holds every memory id at
\* most once, whatever the three lists contain.
C8_DedupOnMerge ==
    last.op \in {"execute_generic_agent", "execute_seo_agent"} =>
        \A k, l \in DOMAIN last.view : k # l => last.view[k].id # last.view[l].id

----------------------------------------------------------------------------
(* SpecTier: a record is stored, re-scored, read and deleted by id, and so are
   ids that were never stored or are already gone; every backend call may fail.
   Every step is one call of the service. *)

MaxUnknown == 1

\* the id store_memory hands out, and the ids nothing was ever stored under
TierIds == 1..(1 + MaxUnknown)

TierPayloads ==
    {[content |-> <<"h", "i">>, type |-> "interaction",
      metadata |-> [tokens |-> 3, model |-> "m"],
      importance |-> 70, user_id |-> None, expiration |-> None]}

StoreTier ==
    \E a \in TierPayloads, flt \in RedisFaults(5) : StoreMemory("a1", 1, a, flt)

UpdateTier ==
    \E id \in TierIds, i \in {90}, u \in {EmptyDict, [tokens |-> 4]},
       flt \in Faults(3) :
        UpdateMemoryImportance("a1", id, i, u, flt)

GetTier == \E id \in TierIds, flt \in RedisFaults(1) : GetMemory("a1", id, flt)

DeleteTier == \E id \in TierIds, flt \in Faults(3) : DeleteMemory("a1", id, flt)

NextTier == StoreTier \/ UpdateTier \/ GetTier \/ DeleteTier

SpecTier == InitUpd /\ [][NextTier]_vars

\* the update was served by the fallback cache: the primary store is not
\* configured, or one of its calls raised
ServedByFallback(call) == ~redis_client \/ call.flt.f # 0

\* C11: update in the fallback cache. An update_memory_importance call that
\* the fallback cache serves, for a record the cache holds, leaves the cache
\* copy with the new importance and with the shallow merge of its old
\* metadata and metadata_updates.
C11_UpdateInFallback ==
    [][(/\ last'.op = "update_memory_importance"
        /\ ServedByFallback(last')
        /\ InCache(memory_cache, last'.agent_id, last'.memory_id))
       => /\ InCache(memory_cache', last'.agent_id, last'.memory_id)
          /\ LET old == CacheGet(memory_cache, last'.agent_id, last'.memory_id)
                 new == CacheGet(memory_cache', last'.agent_id, last'.memory_id)
             IN /\ new.importance = last'.args.importance
                /\ IsShallowMerge(new.metadata, old.metadata,
                                  last'.args.metadata_updates)]_vars

\* the memory id is in no tier: no record in the primary store, no vector in
\* the vector index, no copy in the fallback cache
InNoTier(agent_id, memory_id) ==
    /\ <<agent_id, memory_id>> \notin DOMAIN redis_kv
    /\ memory_id \notin DOMAIN pinecone_vectors[agent_id]
    /\ ~InCache(memory_cache, agent_id, memory_id)

\* C12: not-found is a result. get_memory and update_memory_importance for a
\* memory id that is in no tier do not raise, return None and False, and
\* leave the primary store, its two indices, the vector index and the
\* fallback cache as they were -- whether or not the primary store answers.
C12_NotFound ==
    [][(/\ last'.op \in {"get_memory", "update_memory_importance"}
        /\ InNoTier(last'.agent_id, last'.memory_id))
       => /\ ~last'.raised
          /\ last'.op = "get_memory" => last'.ret = None
          /\ last'.op = "update_memory_importance" => last'.ret = FALSE
          /\ UNCHANGED <<redis_kv, redis_ttl, memory_index, memory_importance,
                         pinecone_vectors, memory_cache>>]_vars

\* a record was stored and deleted again; the update of its id, the primary
\* store raising, reports False
C12_Witness ==
    /\ last.op = "update_memory_importance"
    /\ last.flt.f = 1
    /\ InNoTier(last.agent_id, last.memory_id)
    /\ \E i \in DOMAIN created : created[i][2] = last.memory_id
    /\ last.ret = FALSE

\* C13: delete_memory of a memory id that is in no tier returns False, and it
\* returns True only when the primary store, the vector index or the
\* fallback cache held the record -- with the primary store serving the call
\* and with the fallback cache serving it.
C13_DeleteNotFound ==
    [][last'.op = "delete_memory"
       => /\ ~last'.raised
          /\ InNoTier(last'.agent_id, last'.memory_id) => last'.ret = FALSE
          /\ last'.ret = TRUE => ~InNoTier(last'.agent_id, last'.memory_id)]_vars

----------------------------------------------------------------------------
(* SpecRead: records of two types are stored, then listed by recency (with
   and without filters), by importance, and searched, for limits from 0 on,
   by an agent that has records and by one that has none; every call of the
   primary store and of the vector index made by a read may fail *)

MaxRead == 3

ReadPayloads ==
    {[content |-> <<"h", "i">>, type |-> "interaction", metadata |-> [tokens |-> 3],
      importance |-> 50, user_id |-> None, expiration |-> None],
     [content |-> <<"h", "o">>, type |-> "system", metadata |-> EmptyDict,
      importance |-> 50, user_id |-> None, expiration |-> None]}

StoreRead ==
    /\ Len(created) < MaxRead
    /\ \E a \in ReadPayloads : StoreMemory("a1", Len(created) + 1, a, NoFault)

RecentRead ==
    \E agent_id \in Agents, limit \in 0..2, memory_type \in {None, Some("interaction")},
       metadata_filter \in {EmptyDict, [tokens |-> 3]}, flt \in RedisFaults(2) :
        RetrieveRecentMemories(agent_id, limit, memory_type, metadata_filter, flt)

ImportantRead ==
    \E agent_id \in Agents, limit \in 0..2, flt \in RedisFaults(2) :
        RetrieveImportantMemories(agent_id, limit, flt)

\* the vector index is queried with top_k >= 1
SearchRead ==
    \E agent_id \in Agents, limit \in 0..2, use_semantic \in BOOLEAN,
       flt \in Faults(2) :
        /\ (pinecone_index /\ use_semantic) => limit >= 1
        /\ SearchMemories(agent_id, <<"h">>, limit, 60, use_semantic, flt)

NextRead == StoreRead \/ RecentRead \/ ImportantRead \/ SearchRead

SpecRead == InitSearch /\ [][NextRead]_vars

ReadOps == {"retrieve_recent_memories", "retrieve_important_memories",
            "search_memories"}

\* no tier holds a record of the agent
NoRecords(agent_id) ==
    /\ \A key \in DOMAIN redis_kv : key[1] # agent_id
    /\ pinecone_vectors[agent_id] = EmptyDict
    /\ agent_id \in DOMAIN memory_cache => memory_cache[agent_id] = << >>

C15_FiltersHonoured ==
    last.op = "retrieve_recent_memories" =>
        \A i \in DOMAIN last.ret :
            /\ last.memory_type # None => last.ret[i].type = last.memory_type[1]
            /\ \A k \in DOMAIN last.metadata_filter :
                  /\ k \in DOMAIN last.ret[i].metadata
                  /\ last.ret[i].metadata[k] = last.metadata_filter[k]

\* the ids of the agent's stored records that match the filters of the call,
\* most recently stored first
RECURSIVE MatchingNewestFirst(_)
MatchingNewestFirst(n) ==
    IF n = 0 THEN << >>
    ELSE LET a == created[n][4]
             matches ==
                /\ created[n][1] = last.agent_id
                /\ last.memory_type # None => a.type = last.memory_type[1]
                /\ \A k \in DOMAIN last.metadata_filter :
                      /\ k \in DOMAIN a.metadata
                      /\ a.metadata[k] = last.metadata_filter[k]
         IN (IF matches THEN <<created[n][2]>> ELSE << >>)
            \o MatchingNewestFirst(n - 1)

\* C16: filtered recency. retrieve_recent_memories with a type or metadata
\* filter and limit >= 1, served by the primary store, returns the `limit`
\* most recently stored matching records, or all of them when fewer match,
\* however many non-matching records were stored after them.
C16_FilteredRecent ==
    (/\ last.op = "retrieve_recent_memories"
     /\ redis_client /\ last.flt.f = 0
     /\ last.limit >= 1
     /\ (last.memory_type # None \/ last.metadata_filter # EmptyDict))
    => IdsOf(last.ret) = Take(MatchingNewestFirst(Len(created)), last.limit)

\* C17: limit is a maximum. retrieve_recent_memories,
\* retrieve_important_memories and keyword search_memories return at most
\* `limit` records, for every limit >= 0, from the primary store and from
\* the fallback cache.
C17_LimitIsMaximum ==
    (/\ last.op \in ReadOps
     /\ last.op = "search_memories" => last.path = "keyword")
    => Len(last.ret) <= last.limit

----------------------------------------------------------------------------
(* SpecSemantic: records are stored, the shared vector index receives vectors
   for them and for a record the primary store does not hold, and the agent
   searches, semantically and by keyword, with every call free to fail *)

MaxSem == 2

SemPayloads ==
    {[content |-> <<"h", "i">>, type |-> "interaction", metadata |-> EmptyDict,
      importance |-> 70, user_id |-> None, expiration |-> None],
     [content |-> <<"h">>, type |-> "interaction", metadata |-> EmptyDict,
      importance |-> 30, user_id |-> None, expiration |-> None]}

\* a record whose vector is in the index but which the primary store and the
\* cache of this process never saw
ForeignMemory ==
    [id |-> 0, agent_id |-> "a1", content |-> <<"h", "i">>, type |-> "interaction",
     metadata |-> EmptyDict, importance |-> 50, created_at |-> 0,
     embedding |-> Some(generate_local_embedding(<<"h", "i">>)), user_id |-> None]

StoreSem ==
    /\ Len(created) < MaxSem
    /\ \E a \in SemPayloads : StoreMemory("a1", Len(created) + 1, a, NoFault)

UpsertSem ==
    \/ ExternalUpsert(ForeignMemory)
    \/ \E i \in 1..Len(created) :
          /\ InCache(memory_cache, "a1", i)
          /\ ExternalUpsert(CacheGet(memory_cache, "a1", i))

SearchSem ==
    \E query \in {<<"h", "i">>, <<"h">>}, limit \in 1..2, use_semantic \in BOOLEAN,
       flt \in Faults(2) :
        SearchMemories("a1", query, limit, 60, use_semantic, flt)

NextSem == StoreSem \/ UpsertSem \/ SearchSem

SpecSemantic == InitSearch /\ [][NextSem]_vars

\* the record without its "similarity" field
WithoutSimilarity(memory) == [k \in (DOMAIN memory) \ {"similarity"} |-> memory[k]]

\* C18: semantic search. Every record a search_memories call returns from
\* the semantic path is a match of the vector index whose score is at least
\* min_similarity; the record carries that score as "similarity"; it is the
\* record of the primary store plus the score when the primary store answers
\* and holds the record, and otherwise it is built from the metadata stored
\* with the vector.
C18_SemanticSearch ==
    (last.op = "search_memories" /\ last.path = "semantic" /\ ~last.raised)
    => \A i \in DOMAIN last.ret :
          LET r == last.ret[i]
              namespace == pinecone_vectors[last.agent_id]
              key == <<last.agent_id, r.id>>
          IN /\ r.id \in DOMAIN namespace
             /\ r.similarity = Similarity(generate_local_embedding(last.query),
                                          namespace[r.id].values)
             /\ r.similarity >= last.min_similarity
             /\ IF redis_client /\ last.flt.f = 0 /\ key \in DOMAIN redis_kv
                THEN WithoutSimilarity(r) = json_loads(redis_kv[key])
                ELSE /\ r.agent_id = last.agent_id
                     /\ r.metadata = namespace[r.id].metadata
                     /\ r.content = namespace[r.id].metadata.content
                     /\ r.type = namespace[r.id].metadata.type
                     /\ r.importance = namespace[r.id].metadata.importance
                     /\ r.created_at = namespace[r.id].metadata.created_at

\* one search returns a record read from the primary store and a record
\* built from the metadata of its vector, and leaves out a vector scoring
\* below the threshold
C18_Witness ==
    /\ last.op = "search_memories" /\ last.path = "semantic"
    /\ redis_client /\ last.flt.f = 0
    /\ Len(last.ret) = 2
    /\ \E i \in DOMAIN last.ret : "embedding" \in DOMAIN last.ret[i]
    /\ \E i \in DOMAIN last.ret : "embedding" \notin DOMAIN last.ret[i]
    /\ Cardinality(DOMAIN pinecone_vectors["a1"]) = 3

\* a search_memories call that cannot or must not use the semantic path
KeywordFallbackCase ==
    /\ last.op = "search_memories"
    /\ \/ ~last.use_semantic
       \/ ~pinecone_index
       \/ last.flt.emb
       \/ last.flt.pine

\* C19: keyword fallback. When use_semantic is false, when no vector index is
\* configured, and when the semantic path raises (the embedding or the index
\* query), search_memories does not raise and returns what the keyword search
\* returns for the same agent, query and limit.
C19_KeywordFallback ==
    KeywordFallbackCase
    => /\ ~last.raised
       /\ last.path = "keyword"
       /\ last.ret = search_memories_with_keywords(last.agent_id, last.query,
                                                   last.limit, last.flt.f)
       /\ \A i \in DOMAIN last.ret : "similarity" \notin DOMAIN last.ret[i]

\* the index query raises although the index holds a vector the query
\* matches; the keyword search answers
C19_Witness ==
    /\ last.op = "search_memories"
    /\ last.use_semantic /\ pinecone_index /\ last.flt.pine
    /\ pinecone_vectors["a1"] # EmptyDict
    /\ last.path = "keyword"
    /\ Len(last.ret) >= 1

\* C20: the vector is stored. After a store_memory call with non-empty
\* content, the primary store and the vector index configured and no call
\* failing, the vector index holds, in the namespace of the agent, an entry
\* under the memory id whose values are the embedding of the content.
C20_VectorStored ==
    (/\ last.op = "store_memory"
     /\ Len(last.args.content) > 0
     /\ redis_client /\ pinecone_client /\ pinecone_index
     /\ last.flt = NoFault)
    => /\ last.memory_id \in DOMAIN pinecone_vectors[last.agent_id]
       /\ pinecone_vectors[last.agent_id][last.memory_id].values
             = generate_local_embedding(last.args.content)

----------------------------------------------------------------------------
(* SpecGone: records are stored, the shared vector index receives their
   vectors, and then records are deleted one by one or all at once; the
   primary store answers every call, the vector index may fail the delete *)

MaxGone == 2

GonePayload ==
    [content |-> <<"h", "i">>, type |-> "interaction", metadata |-> EmptyDict,
     importance |-> 50, user_id |-> None, expiration |-> None]

StoreGone ==
    /\ Len(created) < MaxGone
    /\ \E agent_id \in Agents :
          StoreMemory(agent_id, Len(created) + 1, GonePayload, NoFault)

\* vectors arrive before anything is removed
UpsertGone ==
    /\ removed = {}
    /\ \E agent_id \in Agents, i \in 1..Len(created) :
          /\ InCache(memory_cache, agent_id, i)
          /\ ExternalUpsert(CacheGet(memory_cache, agent_id, i))

DeleteGone ==
    \E agent_id \in Agents, id \in 1..MaxGone, pine \in BOOLEAN :
        DeleteMemory(agent_id, id, [f |-> 0, emb |-> FALSE, pine |-> pine])

ClearGone == \E agent_id \in Agents : ClearAgentMemories(agent_id, NoFault, 0)

SearchGone ==
    \E agent_id \in Agents : SearchMemories(agent_id, <<"h", "i">>, 2, 60, TRUE, NoFault)

NextGone == StoreGone \/ UpsertGone \/ DeleteGone \/ ClearGone \/ SearchGone

SpecGone == InitSearch /\ [][NextGone]_vars

\* no tier holds anything under the memory id
GoneFromAllTiers(agent_id, memory_id) ==
    /\ <<agent_id, memory_id>> \notin DOMAIN redis_kv
    /\ memory_id \notin DOMAIN memory_index[agent_id]
    /\ memory_id \notin DOMAIN memory_importance[agent_id]
    /\ memory_id \notin DOMAIN pinecone_vectors[agent_id]
    /\ ~InCache(memory_cache, agent_id, memory_id)

\* C21: removal reaches all three tiers. With the primary store and the vector
\* index configured: after delete_memory returns, no call having failed, the
\* primary store (record and both index entries), the
\* agent's namespace of the vector index and the fallback cache hold nothing
\* under the deleted id; after clear_agent_memories returns, no call having
\* failed, they hold nothing under any id stored for the agent.
C21_RemovedFromAllTiers ==
    /\ (last.op = "delete_memory" /\ last.flt = NoFault
          /\ redis_client /\ pinecone_index)
       => GoneFromAllTiers(last.agent_id, last.memory_id)
    /\ (last.op = "clear_agent_memories" /\ last.flt = NoFault
          /\ redis_client /\ pinecone_index)
       => \A i \in DOMAIN created :
             created[i][1] = last.agent_id
             => GoneFromAllTiers(last.agent_id, created[i][2])

\* C22: no rollback. When the delete of the vector index raises inside
\* delete_memory, the call still returns true without raising, and the
\* record, both its index entries and the fallback-cache copy are gone.
C22_NoRollback ==
    (last.op = "delete_memory" /\ last.flt.pine)
    => /\ ~last.raised
       /\ last.ret = TRUE
       /\ <<last.agent_id, last.memory_id>> \notin DOMAIN redis_kv
       /\ last.memory_id \notin DOMAIN memory_index[last.agent_id]
       /\ last.memory_id \notin DOMAIN memory_importance[last.agent_id]
       /\ ~InCache(memory_cache, last.agent_id, last.memory_id)

\* a stored record whose vector is in the index is deleted, the index delete
\* raises, and the vector stays behind
C22_Witness ==
    /\ last.op = "delete_memory" /\ last.flt.pine
    /\ \E i \in DOMAIN created :
          created[i][1] = last.agent_id /\ created[i][2] = last.memory_id
    /\ last.memory_id \in DOMAIN pinecone_vectors[last.agent_id]
    /\ last.ret = TRUE

----------------------------------------------------------------------------
(* SpecIso: two agents store one record each in one service; every other
   operation is called for either agent with the ids of both agents' records *)

MaxIso == 2

StoreIso ==
    /\ Len(created) < Cardinality(Agents)
    /\ StoreMemory(IF Len(created) = 0 THEN "a1" ELSE "a2", Len(created) + 1,
                   GonePayload, NoFault)

\* vectors arrive before anything is removed
UpsertIso ==
    /\ removed = {}
    /\ \E agent_id \in Agents, i \in 1..Len(created) :
          /\ InCache(memory_cache, agent_id, i)
          /\ ExternalUpsert(CacheGet(memory_cache, agent_id, i))

GetIso == \E agent_id \in Agents, id \in 1..Len(created) : GetMemory(agent_id, id, NoFault)

UpdateIso ==
    \E agent_id \in Agents, id \in 1..Len(created) :
        UpdateMemoryImportance(agent_id, id, 90, EmptyDict, NoFault)

DeleteIso == \E agent_id \in Agents, id \in 1..Len(created) : DeleteMemory(agent_id, id, NoFault)

ClearIso == \E agent_id \in Agents : ClearAgentMemories(agent_id, NoFault, 0)

RecentIso ==
    \E agent_id \in Agents, limit \in 1..MaxIso :
        RetrieveRecentMemories(agent_id, limit, None, None, NoFault)

ImportantIso ==
    \E agent_id \in Agents, limit \in 1..MaxIso :
        RetrieveImportantMemories(agent_id, limit, NoFault)

SearchIso ==
    \E agent_id \in Agents, limit \in 1..MaxIso, use_semantic \in BOOLEAN :
        SearchMemories(agent_id, <<"h", "i">>, limit, 60, use_semantic, NoFault)

NextIso ==
    \/ StoreIso \/ UpsertIso \/ GetIso \/ UpdateIso \/ DeleteIso \/ ClearIso
    \/ RecentIso \/ ImportantIso \/ SearchIso

SpecIso == InitSearch /\ [][NextIso]_vars

\* everything the three tiers hold for one agent
TiersOf(agent_id, kv, ttl, idx, imp, vectors, cache) ==
    [records |-> [k \in {x \in DOMAIN kv : x[1] = agent_id} |-> kv[k]],
     ttls |-> [k \in {x \in DOMAIN ttl : x[1] = agent_id} |-> ttl[k]],
     index |-> idx[agent_id], importance |-> imp[agent_id],
     vectors |-> vectors[agent_id],
     cache |-> IF agent_id \in DOMAIN cache THEN Some(cache[agent_id]) ELSE None]

\* the records a read returned
Returned(l) ==
    IF l.op = "get_memory" THEN {l.ret[i] : i \in DOMAIN l.ret}
    ELSE IF l.op \in ReadOps THEN {l.ret[i] : i \in DOMAIN l.ret}
    ELSE {}

\* C23: agent isolation. A call of store, get, retrieve, update, delete,
\* clear or search made for one agent leaves everything the primary store
\* (records, expiries, both indices), the vector index and the fallback cache
\* hold for every other agent as it was, and every record it returns belongs
\* to the agent it was made for.
C23_AgentIsolation ==
    [][last' # last =>
         /\ \A b \in Agents \ {last'.agent_id} :
               TiersOf(b, redis_kv', redis_ttl', memory_index', memory_importance',
                       pinecone_vectors', memory_cache')
               = TiersOf(b, redis_kv, redis_ttl, memory_index, memory_importance,
                         pinecone_vectors, memory_cache)
         /\ \A m \in Returned(last') : m.agent_id = last'.agent_id]_vars

\* a delete made for one agent with the id of the other agent's record, whose
\* record, vector and cache copy are all in place afterwards
C23_Witness ==
    /\ last.op = "delete_memory"
    /\ redis_client /\ pinecone_index
    /\ \E b \in Agents \ {last.agent_id} :
          /\ <<b, last.memory_id>> \in DOMAIN redis_kv
          /\ last.memory_id \in DOMAIN pinecone_vectors[b]
          /\ InCache(memory_cache, b, last.memory_id)

----------------------------------------------------------------------------
(* summarize_agent_memories, lines 1074-1096 *)

Digits == <<"0", "1", "2", "3", "4", "5", "6", "7", "8", "9">>

\* str(n) of a natural number
RECURSIVE Str(_)
Str(n) == IF n < 10 THEN <<Digits[n + 1]>>
          ELSE Str(n \div 10) \o <<Digits[(n % 10) + 1]>>

\* sep.join(texts)
RECURSIVE Join(_, _)
Join(sep, texts) ==
    IF texts = << >> THEN << >>
    ELSE IF Len(texts) = 1 THEN texts[1]
    ELSE texts[1] \o sep \o Join(sep, Tail(texts))

SummaryLimit == 10

NoMemoriesText ==
    <<"N", "o", " ", "s", "i", "g", "n", "i", "f", "i", "c", "a", "n", "t", " ",
      "m", "e", "m", "o", "r", "i", "e", "s", " ", "a", "v", "a", "i", "l", "a",
      "b", "l", "e", " ", "f", "o", "r", " ", "t", "h", "i", "s", " ",
      "a", "g", "e", "n", "t", ".">>

\* f"Memory {i+1}: {memory['content']}" with i counted from 0 by enumerate
memory_text(i, memory) ==
    <<"M", "e", "m", "o", "r", "y", " ">> \o Str(i + 1) \o <<":", " ">> \o memory.content

summary_text(memories) ==
    IF memories = << >> THEN NoMemoriesText
    ELSE Join(<<"\n", "\n">>, [i \in 1..Len(memories) |-> memory_text(i - 1, memories[i])])

\* the flt of the call is that of its retrieve_important_memories
SummarizeAgentMemories(agent_id, max_tokens, flt) ==
    LET r == retrieve_important_memories(agent_id, SummaryLimit, flt)
    IN /\ flt.f # 0 => redis_client
       /\ flt.f = 2 => ZRevRange(memory_importance[agent_id], SummaryLimit - 1) # << >>
       /\ ~flt.emb /\ ~flt.pine
       /\ last' = [op |-> "summarize_agent_memories", agent_id |-> agent_id,
                   max_tokens |-> max_tokens, flt |-> flt, memories |-> r.ret,
                   ret |-> IF r.raised THEN << >> ELSE summary_text(r.ret),
                   raised |-> r.raised]
       /\ ReadOnly

----------------------------------------------------------------------------
(* SpecSum: records are stored for two agents and summarised with every
   bound up to MaxTokens *)

MaxSum == 2
MaxTokens == 3

SumPayloads ==
    {[content |-> c, type |-> "interaction", metadata |-> EmptyDict,
      importance |-> i, user_id |-> None, expiration |-> None] :
        c \in {<<"h", "i">>, <<"h", "o", " ", "h", "o">>}, i \in {50, 90}}

StoreSum ==
    /\ Len(created) < MaxSum
    /\ \E agent_id \in Agents, a \in SumPayloads :
          StoreMemory(agent_id, Len(created) + 1, a, NoFault)

Summarize ==
    \E agent_id \in Agents, max_tokens \in 1..MaxTokens, flt \in RedisFaults(1) :
        SummarizeAgentMemories(agent_id, max_tokens, flt)

NextSum == StoreSum \/ Summarize

SpecSum == InitUpd /\ [][NextSum]_vars

Whitespace == {" ", "\n"}

\* the number of maximal runs of non-whitespace characters: no tokenizer
\* yields fewer tokens than this
Words(text) ==
    Cardinality({i \in DOMAIN text :
                    /\ text[i] \notin Whitespace
                    /\ (i = 1 \/ text[i - 1] \in Whitespace)})

\* C24: the summary is bounded. When summarize_agent_memories(agent_id,
\* max_tokens) returns the concatenation of memories, the returned text has
\* at most max_tokens tokens, counted generously as whitespace-separated words.
C24_SummaryBounded ==
    (last.op = "summarize_agent_memories" /\ ~last.raised /\ last.memories # << >>)
    => Words(last.ret) <= last.max_tokens

----------------------------------------------------------------------------
(* SpecEmb: generate_embedding is called with every text, with either source
   of embeddings configured, with and without Redis, and meets every outcome
   of the cache read, the provider and the cache write-back; cached
   embeddings expire in Redis *)

EmbTexts == {<<"h">>, <<"h", "i">>, <<Surrogate>>, <<"h", Surrogate>>}

InitEmb ==
    \E redis \in BOOLEAN, gemini \in BOOLEAN :
        InitState([redis |-> redis, client |-> FALSE, index |-> FALSE], gemini)

GenerateEmbedding ==
    \E text \in EmbTexts, e \in EmbeddingOutcomes :
        LET g == generate_embedding(text, e)
        IN /\ (e.get \/ e.setex) => redis_client
           /\ e.provider # "values" => gemini_enabled
           /\ embedding_redis' = g.redis
           /\ embedding_cache' = g.cache
           /\ last' = [op |-> "generate_embedding", text |-> text, e |-> e,
                       ret |-> g.ret, raised |-> g.raised, computed |-> g.computed]
           /\ UNCHANGED <<config, redis_kv, redis_ttl, memory_index, memory_importance,
                          pinecone_vectors, memory_cache, now, created, removed>>

\* setex(cache_key, MEMORY_CACHE_TTL, ...): the key is gone when the TTL is over
ExpireEmbedding ==
    \E text \in DOMAIN embedding_redis :
        /\ embedding_redis' = DictDel(embedding_redis, text)
        /\ last' = [op |-> "expire_embedding", text |-> text]
        /\ UNCHANGED <<config, embedding_cache, redis_kv, redis_ttl, memory_index,
                       memory_importance, pinecone_vectors, memory_cache, now,
                       created, removed>>

NextEmb == GenerateEmbedding \/ ExpireEmbedding

SpecEmb == InitEmb /\ [][NextEmb]_vars

\* C25: an embedding is always produced. Every call of generate_embedding
\* returns, without raising, a vector of the configured dimension -- for
\* every text, whether or not the cache read, the provider or the cache
\* write-back fails.
C25_AlwaysEmbedding ==
    last.op = "generate_embedding"
    => /\ ~last.raised
       /\ last.ret # None
       /\ Len(last.ret[1]) = EmbDim

----------------------------------------------------------------------------
(* Claims on the order and the mirroring of the writes of store_memory,
   checked under Spec *)

\* C26: store mirrors into the fallback cache. When store_memory has
\* returned, the fallback cache holds under (agent_id, id) the record just
\* built -- id, agent, content, type, metadata, importance, user_id and
\* creation time -- whichever primary-store call (set, expire, zadd, zadd,
\* expire) or vector-index step failed, when none failed, and when no
\* primary store is configured.
C26_StoreMirrored ==
    last.op = "store_memory"
    => /\ InCache(memory_cache, last.agent_id, last.memory_id)
       /\ LET memory == CacheGet(memory_cache, last.agent_id, last.memory_id)
          IN /\ memory.id = last.memory_id
             /\ memory.agent_id = last.agent_id
             /\ memory.content = last.args.content
             /\ memory.type = last.args.type
             /\ memory.metadata = last.args.metadata
             /\ memory.importance = last.args.importance
             /\ memory.user_id = last.args.user_id
             /\ memory.created_at = last.at

\* the first zadd raised after the record was set: the record is in the
\* primary store, in neither index, and in the fallback cache
C26_Witness ==
    /\ last.op = "store_memory"
    /\ last.flt.f = 3
    /\ <<last.agent_id, last.memory_id>> \in DOMAIN redis_kv
    /\ last.memory_id \notin DOMAIN memory_index[last.agent_id]
    /\ InCache(memory_cache, last.agent_id, last.memory_id)

\* C27: both indices or neither. In every state between operations, with a
\* primary store configured, the id of every stored memory is a member of
\* the agent's recency index iff it is a member of the agent's importance
\* index iff its record exists in the primary store -- failing primary-store
\* calls and expiry of records allowed.
C27_IndicesAgree ==
    redis_client
    => \A i \in DOMAIN created :
          LET agent_id == created[i][1]
              memory_id == created[i][2]
          IN /\ (memory_id \in DOMAIN memory_index[agent_id])
                <=> (memory_id \in DOMAIN memory_importance[agent_id])
             /\ (memory_id \in DOMAIN memory_index[agent_id])
                <=> (<<agent_id, memory_id>> \in DOMAIN redis_kv)

\* C28: store ordering. Within one store_memory call the vector-index step
\* is reached only after the record write and both index writes succeeded:
\* the primary store is configured, none of set, expire, zadd, zadd raised,
\* and the record and both index entries are in place when the call returns.
\* When the primary store is not configured or one of those writes raised,
\* the step is not reached and the vector index holds nothing under the id.
C28_StoreOrdering ==
    [][(last'.op = "store_memory" /\ last' # last) =>
         /\ last'.upsert_attempted
            => /\ redis_client
               /\ last'.flt.f \notin 1..4
               /\ <<last'.agent_id, last'.memory_id>> \in DOMAIN redis_kv'
               /\ last'.memory_id \in DOMAIN memory_index'[last'.agent_id]
               /\ last'.memory_id \in DOMAIN memory_importance'[last'.agent_id]
         /\ (~redis_client \/ last'.flt.f \in 1..4)
            => /\ ~last'.upsert_attempted
               /\ last'.memory_id \notin DOMAIN pinecone_vectors'[last'.agent_id]]_vars

\* the vector-index step was reached after all four writes, and the expire
\* that follows it raised
C28_Witness ==
    /\ last.op = "store_memory"
    /\ last.upsert_attempted
    /\ last.flt.f = 5
    /\ last.memory_id \in DOMAIN memory_importance[last.agent_id]

----------------------------------------------------------------------------
(* _store_in_pinecone, lines 385-457, called on its own *)

\* lines 405-412: pad with zeros or truncate to MEMORY_DEFAULT_DIMENSION
PadOrTruncate(vector) ==
    IF Len(vector) = EmbDim THEN vector
    ELSE IF Len(vector) < EmbDim
    THEN vector \o [i \in 1..(EmbDim - Len(vector)) |-> 0]
    ELSE Take(vector, EmbDim)

\* lines 431-437
simplified_metadata(metadata) ==
    [agent_id |-> metadata.agent_id,
     content_summary |-> Take(metadata.content, 100),
     type |-> metadata.type,
     importance |-> metadata.importance,
     created_at |-> metadata.created_at]

\* what the index answers to an upsert: it accepts it, rejects it with a
\* message holding "bad request" or "dimension mismatch", the SDK raises
\* TypeError, or the call fails otherwise
IndexAnswers == {"ok", "bad request", "dimension mismatch", "TypeError", "unavailable"}

\* The name `vector` inside the nested _upsert_to_pinecone is assigned there
\* (lines 410 and 412), which makes it a local of the nested function: the
\* argument of _store_in_pinecone is not visible in it and the local is
\* unbound when line 405 reads it.
VectorVisible == FALSE

\* _upsert_to_pinecone: the upsert calls sent to the index, in order; r1 and
\* r2 are the answers of the index to the first and to the second call
upsert_to_pinecone(id, vector, metadata, r1, r2) ==
    LET values == PadOrTruncate(vector)
        first == [id |-> id, values |-> values, metadata |-> metadata, syntax |-> "dict"]
        retry == [id |-> id, values |-> values,
                  metadata |-> simplified_metadata(metadata), syntax |-> "dict"]
        older == [id |-> id, values |-> values, metadata |-> metadata, syntax |-> "tuple"]
    IN IF ~VectorVisible THEN << >>            \* UnboundLocalError, caught at line 452
       ELSE IF r1 = "ok" THEN <<first>>
       ELSE IF r1 = "dimension mismatch" THEN <<first>>              \* line 424
       ELSE IF r1 = "bad request"                                    \* line 426
            THEN IF r2 = "TypeError" THEN <<first, retry, older>>    \* line 444
                 ELSE <<first, retry>>
       ELSE IF r1 = "TypeError" THEN <<first, older>>                \* line 444
       ELSE <<first>>                                                \* line 443

MaxVecLen == 3

UpsertVectors ==
    UNION {[1..n -> {0, 1}] : n \in 0..MaxVecLen}

UpsertMemory ==
    [id |-> 1, agent_id |-> "a1", content |-> <<"h", "i">>, type |-> "interaction",
     metadata |-> EmptyDict, importance |-> 50, created_at |-> 0,
     embedding |-> None, user_id |-> None]

\* the call of line 339 with a vector of any length
StoreInPinecone ==
    \E vector \in UpsertVectors, r1 \in IndexAnswers, r2 \in IndexAnswers :
        LET metadata == PineconeMetadata(UpsertMemory)
            calls == IF ~pinecone_index \/ ~pinecone_client THEN << >>     \* line 393
                     ELSE upsert_to_pinecone(UpsertMemory.id, vector, metadata, r1, r2)
            accepted == IF calls # << >> /\ r1 = "ok" THEN <<calls[1]>>
                        ELSE IF Len(calls) > 1 /\ r2 = "ok" THEN <<calls[2]>>
                        ELSE << >>
        IN /\ pinecone_vectors' =
                 IF accepted = << >> THEN pinecone_vectors
                 ELSE [pinecone_vectors EXCEPT !["a1"] =
                          DictSet(@, accepted[1].id,
                                  [values |-> accepted[1].values,
                                   metadata |-> accepted[1].metadata])]
           /\ last' = [op |-> "_store_in_pinecone", agent_id |-> "a1",
                       vector |-> vector, r1 |-> r1, r2 |-> r2,
                       calls |-> calls, raised |-> FALSE]
           /\ UNCHANGED <<config, embeddings, redis_kv, redis_ttl, memory_index,
                          memory_importance, memory_cache, now, created, removed>>

SpecUpsert == Init /\ [][StoreInPinecone]_vars

\* C29: the upsert corrects the dimension and is always made. With the
\* index configured, _store_in_pinecone called with a vector of any length
\* sends an upsert whose vector has the configured dimension: the input
\* padded with zeros, truncated, or unchanged.
C29_UpsertCorrected ==
    (last.op = "_store_in_pinecone" /\ pinecone_index /\ pinecone_client)
    => /\ last.calls # << >>
       /\ Len(last.calls[1].values) = EmbDim
       /\ last.calls[1].values = PadOrTruncate(last.vector)

\* C31: embedding memoization. A call of generate_embedding whose cache read
\* does not fail returns the vector the distributed cache holds for the text,
\* else the vector the local map holds, computing nothing and writing
\* nothing; when neither holds one it computes the vector, puts it into the
\* local map and, when the write-back does not fail, into the distributed
\* cache. Of two calls in a row with the same text, the second returns the
\* vector of the first and computes nothing.
C31_Memoized ==
    [][(last'.op = "generate_embedding" /\ ~last'.raised /\ ~last'.e.get) =>
         LET text == last'.text
             in_redis == redis_client /\ text \in DOMAIN embedding_redis
             in_local == text \in DOMAIN embedding_cache
         IN /\ in_redis
               => /\ last'.ret = Some(embedding_redis[text])
                  /\ ~last'.computed
                  /\ UNCHANGED embeddings
            /\ (~in_redis /\ in_local)
               => /\ last'.ret = Some(embedding_cache[text])
                  /\ ~last'.computed
                  /\ UNCHANGED embeddings
            /\ (~in_redis /\ ~in_local)
               => /\ last'.computed
                  /\ embedding_cache' = DictSet(embedding_cache, text, last'.ret[1])
                  /\ embedding_redis' = IF redis_client /\ ~last'.e.setex
                                        THEN DictSet(embedding_redis, text, last'.ret[1])
                                        ELSE embedding_redis
            /\ (last.op = "generate_embedding" /\ last.text = text /\ ~last.raised)
               => /\ last'.ret = last.ret
                  /\ ~last'.computed]_vars

\* the provider is enabled and would fail, yet the call returns the
\* provider's vector memoized by an earlier call, computing nothing
C31_Witness ==
    /\ last.op = "generate_embedding"
    /\ gemini_enabled
    /\ last.e.provider = "error"
    /\ ~last.e.get
    /\ ~last.computed
    /\ last.ret = Some(gemini_embedding(last.text))

----------------------------------------------------------------------------
(* Claims on what update_memory_importance leaves alone, under SpecUpd *)

\* the fields of a record other than importance and metadata
FrameFields == {"id", "agent_id", "content", "type", "created_at", "embedding", "user_id"}

\* C32: update_memory_importance changes only importance and metadata. A call
\* leaves the set of records of the primary store and of the fallback cache
\* as it was, leaves id, agent_id, content, type, created_at, embedding and
\* user_id of every record unchanged in both, and leaves the recency index
\* unchanged -- whichever step of the update fails.
C32_UpdateFrame ==
    [][(last'.op = "update_memory_importance" /\ last' # last) =>
         /\ DOMAIN redis_kv' = DOMAIN redis_kv
         /\ \A k \in DOMAIN redis_kv :
               \A f \in FrameFields : redis_kv'[k][f] = redis_kv[k][f]
         /\ memory_index' = memory_index
         /\ DOMAIN memory_cache' = DOMAIN memory_cache
         /\ \A a \in DOMAIN memory_cache :
               /\ Len(memory_cache'[a]) = Len(memory_cache[a])
               /\ \A p \in DOMAIN memory_cache[a] :
                     \A f \in FrameFields :
                        memory_cache'[a][p][f] = memory_cache[a][p][f]]_vars

\* an update of a record with a user_id changed importance and metadata in
\* the primary store and in the cache copy
C32_Witness ==
    /\ last.op = "update_memory_importance"
    /\ last.ret = TRUE
    /\ redis_client
    /\ last.flt.f = 0
    /\ last.before # None
    /\ last.before[1].user_id # None
    /\ <<last.agent_id, last.memory_id>> \in DOMAIN redis_kv
    /\ json_loads(redis_kv[<<last.agent_id, last.memory_id>>]).metadata
          # last.before[1].metadata
    /\ json_loads(redis_kv[<<last.agent_id, last.memory_id>>]).importance
          # last.before[1].importance
    /\ InCache(memory_cache, last.agent_id, last.memory_id)
    /\ CacheGet(memory_cache, last.agent_id, last.memory_id).importance
          = last.args.importance

----------------------------------------------------------------------------
(* SpecBoot: the constructor runs initialize_pinecone (lines 73-158) step by
   step against a Pinecone service that answers each call as it likes; once
   the constructor has returned, memories are stored and searched *)

MaxPolls == 2       \* the count of describe_index calls is recorded up to this
MaxBoot == 1        \* store_memory calls after construction

InitBoot ==
    \E redis \in BOOLEAN :
        InitState([redis |-> redis, client |-> FALSE, index |-> FALSE], FALSE)

\* one step of initialize_pinecone: where it stands afterwards and what it
\* has assigned to self.pinecone_client and self.pinecone_index
InitializeStep(pc, polls, client, index) ==
    /\ last' = [op |-> "initialize_pinecone", pc |-> pc, polls |-> polls]
    /\ pinecone_client' = client
    /\ pinecone_index' = index
    /\ UNCHANGED <<redis_client, gemini_enabled, embeddings, redis_kv, redis_ttl,
                   memory_index, memory_importance, pinecone_vectors, memory_cache,
                   now, created, removed>>

At(pc) == last.op = "initialize_pinecone" /\ last.pc = pc

\* __init__, line 69: the API key is set and initialize_pinecone is entered
EnterInitialize ==
    /\ last.op = "init"
    /\ InitializeStep("client", 0, FALSE, FALSE)

\* line 87: Pinecone(api_key=...), or the import or the constructor raises
CreateClient ==
    /\ At("client")
    /\ \/ InitializeStep("list", 0, TRUE, FALSE)
       \/ InitializeStep("done", 0, FALSE, FALSE)

\* lines 92-103: list_indexes (a failure counts as no index), then Index(name)
\* when the index exists
ListIndexes ==
    /\ At("list")
    /\ \/ InitializeStep("done", 0, TRUE, TRUE)       \* exists, connected
       \/ InitializeStep("done", 0, TRUE, FALSE)      \* exists, Index() raises
       \/ InitializeStep("create", 0, TRUE, FALSE)    \* not listed

\* lines 108-126: create_index, with one other attempt in the old form when
\* the first raises ImportError or AttributeError
CreateIndex ==
    /\ At("create")
    /\ \/ InitializeStep("describe", 0, TRUE, FALSE)
       \/ InitializeStep("done", 0, TRUE, FALSE)      \* create_index raises, line 141

\* line 131: describe_index(name).status['ready']
DescribeIndex ==
    /\ At("describe")
    /\ LET polls == IF last.polls < MaxPolls THEN last.polls + 1 ELSE last.polls
       IN \/ InitializeStep("connect", polls, TRUE, FALSE)    \* ready, or it raises
                                                              \* (sleep(5), line 136)
          \/ InitializeStep("sleep", polls, TRUE, FALSE)      \* not ready

\* line 132: time.sleep(1), then the loop tests again
Sleep ==
    /\ At("sleep")
    /\ InitializeStep("describe", last.polls, TRUE, FALSE)

\* line 139: Index(name)
ConnectIndex ==
    /\ At("connect")
    /\ \/ InitializeStep("done", last.polls, TRUE, TRUE)
       \/ InitializeStep("done", last.polls, TRUE, FALSE)

\* the constructor has returned
Constructed ==
    /\ last.op # "init"
    /\ last.op = "initialize_pinecone" => last.pc = "done"

StoreBoot ==
    /\ Constructed
    /\ Len(created) < MaxBoot
    /\ \E flt \in Faults(5) : StoreMemory("a1", Len(created) + 1, GonePayload, flt)

SearchBoot ==
    /\ Constructed
    /\ \E use_semantic \in BOOLEAN, flt \in Faults(2) :
          SearchMemories("a1", <<"h", "i">>, 2, 60, use_semantic, flt)

NextBoot ==
    \/ EnterInitialize \/ CreateClient \/ ListIndexes \/ CreateIndex
    \/ DescribeIndex \/ Sleep \/ ConnectIndex
    \/ StoreBoot \/ SearchBoot

\* the process keeps running: a step that can be taken is taken
SpecBoot == InitBoot /\ [][NextBoot]_vars /\ WF_vars(NextBoot)

\* C33: no tier is retried for ever. The vector-index initialisation run by
\* the constructor finishes, so that the service gets to serve calls,
\* whatever the Pinecone service answers -- an index that never reports
\* ready included.
C33_InitializationEnds == <>Constructed

----------------------------------------------------------------------------
(* SpecShadow: two agents store, update, delete and clear; no call fails and
   no record expires *)

MaxShadow == 2

ShadowPayload ==
    [content |-> <<"h", "i">>, type |-> "interaction",
     metadata |-> [tokens |-> 3, model |-> "m"],
     importance |-> 70, user_id |-> Some(<<"u", "1">>), expiration |-> None]

\* the agents store in turn
StoreShadow ==
    /\ Len(created) < MaxShadow
    /\ StoreMemory(IF Len(created) % 2 = 0 THEN "a1" ELSE "a2", Len(created) + 1,
                   ShadowPayload, NoFault)

UpdateShadow ==
    \E agent_id \in Agents, id \in 1..Len(created),
       u \in {EmptyDict, [tokens |-> 4]} :
        UpdateMemoryImportance(agent_id, id, 90, u, NoFault)

DeleteShadow ==
    \E agent_id \in Agents, id \in 1..Len(created) : DeleteMemory(agent_id, id, NoFault)

ClearShadow == \E agent_id \in Agents : ClearAgentMemories(agent_id, NoFault, 0)

NextShadow == StoreShadow \/ UpdateShadow \/ DeleteShadow \/ ClearShadow

SpecShadow == InitUpd /\ [][NextShadow]_vars

\* the ids the fallback cache holds for an agent
CachedIds(agent_id) ==
    IF agent_id \in DOMAIN memory_cache
    THEN {memory_cache[agent_id][p].id : p \in DOMAIN memory_cache[agent_id]}
    ELSE {}

\* C34: shadow-copy consistency. With a primary store configured, no call
\* failing and no record expiring, after any sequence of store_memory,
\* update_memory_importance, delete_memory and clear_agent_memories the
\* fallback cache holds for every agent exactly the ids the primary store
\* holds records for, and each copy has the content, type, importance and
\* metadata of the primary-store record.
C34_ShadowCopy ==
    redis_client
    => \A agent_id \in Agents :
          /\ CachedIds(agent_id) = {k[2] : k \in {x \in DOMAIN redis_kv : x[1] = agent_id}}
          /\ \A id \in CachedIds(agent_id) :
                LET copy == CacheGet(memory_cache, agent_id, id)
                    memory == json_loads(redis_kv[<<agent_id, id>>])
                IN /\ copy.content = memory.content
                   /\ copy.type = memory.type
                   /\ copy.importance = memory.importance
                   /\ copy.metadata = memory.metadata

\* one record was removed and another has just been updated with new
\* metadata, in the primary store and in its cache copy
C34_Witness ==
    /\ redis_client
    /\ last.op = "update_memory_importance"
    /\ last.ret = TRUE
    /\ last.args.metadata_updates = [tokens |-> 4]
    /\ last.before # None
    /\ last.before[1].metadata # EmptyDict
    /\ removed # {}
    /\ CacheGet(memory_cache, last.agent_id, last.memory_id).metadata
          = [tokens |-> 4, model |-> "m"]

-----------------------------------------------------------------------------
(* Concurrent calls. update_memory_importance and delete_memory are
   coroutines: each gives up control at every await and other calls run in
   between. In SpecRace the variable last holds the frames of the calls made
   so far: where each stands, its arguments, its local name memory and its
   result. Redis is configured and no call fails. *)

MaxCalls == 2       \* update and delete calls per run of SpecRace

RaceAgent == "a1"

RaceKey == <<RaceAgent, 1>>

\* agent_manager.py 396-411: the two updates of a stored conversation
RaceUpdates ==
    {[importance |-> 90, metadata_updates |-> [important |-> TRUE]],
     [importance |-> 80, metadata_updates |-> [feedback |-> "positive"]]}

InitRace ==
    \E pinecone \in BOOLEAN :
        InitWith([redis |-> TRUE, client |-> pinecone, index |-> pinecone])

Frames == IF last.op = "calls" THEN last.frames ELSE << >>

Running(frame) == frame.pc # "done"

\* the call t goes on to frame
Resume(t, frame) ==
    last' = [op |-> "calls", frames |-> [Frames EXCEPT ![t] = frame]]

StoreRace ==
    /\ created = << >>
    /\ StoreMemory(RaceAgent, 1, ShadowPayload, NoFault)

\* lines 983-999: the call is made, get answers, and the new importance and
\* the merged metadata are assigned to the local record
UpdateGet ==
    /\ created # << >>
    /\ Len(Frames) < MaxCalls
    /\ \E a \in RaceUpdates :
          LET found == RaceKey \in DOMAIN redis_kv
              old == json_loads(redis_kv[RaceKey])
              frame == [call |-> "update", importance |-> a.importance,
                        metadata_updates |-> a.metadata_updates,
                        overlapped |-> FALSE,
                        pc |-> IF found THEN "set" ELSE "done",
                        memory |-> IF found
                                   THEN Some([old EXCEPT
                                          !.importance = a.importance,
                                          !.metadata = merged_metadata(@, a.metadata_updates)])
                                   ELSE None,
                        ret |-> IF found THEN None ELSE Some(FALSE)]
          IN last' = [op |-> "calls", frames |-> Append(Frames, frame)]
    /\ UNCHANGED <<config, embeddings, redis_kv, redis_ttl, memory_index,
                   memory_importance, pinecone_vectors, memory_cache, now, created,
                   removed>>

\* lines 1002-1005: set writes the local record
UpdateSet ==
    \E t \in DOMAIN Frames :
        /\ Frames[t].call = "update" /\ Frames[t].pc = "set"
        /\ redis_kv' = DictSet(redis_kv, RaceKey, json_dumps(Frames[t].memory[1]))
        /\ redis_ttl' = DictDel(redis_ttl, RaceKey)
        /\ Resume(t, [Frames[t] EXCEPT !.pc = "zadd"])
        /\ UNCHANGED <<config, embeddings, memory_index, memory_importance,
                       pinecone_vectors, memory_cache, now, created, removed>>

\* lines 1036-1047: the cache copy is updated and the call returns True
UpdateReturn(t) ==
    /\ memory_cache' = update_cache_copy(memory_cache, RaceAgent, 1,
                                         Frames[t].importance,
                                         Frames[t].metadata_updates)
    /\ Resume(t, [Frames[t] EXCEPT !.pc = "done", !.ret = Some(TRUE)])

\* lines 1008-1011: zadd on the importance index; without the vector-index
\* step the call runs on to its return
UpdateZadd ==
    \E t \in DOMAIN Frames :
        /\ Frames[t].call = "update" /\ Frames[t].pc = "zadd"
        /\ memory_importance' = [memory_importance EXCEPT ![RaceAgent] =
                                    ZAdd(@, 1, Frames[t].importance)]
        /\ IF pinecone_client /\ TruthySeq(Frames[t].memory[1].embedding)
           THEN /\ Resume(t, [Frames[t] EXCEPT !.pc = "pinecone"])
                /\ UNCHANGED memory_cache
           ELSE UpdateReturn(t)
        /\ UNCHANGED <<config, embeddings, redis_kv, redis_ttl, memory_index,
                       pinecone_vectors, now, created, removed>>

\* lines 1016-1034: the update of the vector's metadata in the executor
UpdatePinecone ==
    \E t \in DOMAIN Frames :
        /\ Frames[t].call = "update" /\ Frames[t].pc = "pinecone"
        /\ pinecone_vectors' = PineconeSetMetadata(pinecone_vectors, RaceAgent, 1,
                                                   Frames[t].importance)
        /\ UpdateReturn(t)
        /\ UNCHANGED <<config, embeddings, redis_kv, redis_ttl, memory_index,
                       memory_importance, now, created, removed>>

\* lines 820-822: the call is made and the key is deleted
DeleteKey ==
    /\ created # << >>
    /\ Len(Frames) < MaxCalls
    /\ \A t \in DOMAIN Frames : Frames[t].call # "delete"
    /\ redis_kv' = DictDel(redis_kv, RaceKey)
    /\ redis_ttl' = DictDel(redis_ttl, RaceKey)
    /\ removed' = removed \cup {RaceKey}
    /\ last' = [op |-> "calls",
                frames |-> Append(Frames, [call |-> "delete", importance |-> 0,
                                           metadata_updates |-> EmptyDict,
                                           overlapped |-> FALSE,
                                           pc |-> "zrem_index", memory |-> None,
                                           ret |-> None])]
    /\ UNCHANGED <<config, embeddings, memory_index, memory_importance,
                   pinecone_vectors, memory_cache, now, created>>

\* line 825: zrem on the recency index
DeleteZremIndex ==
    \E t \in DOMAIN Frames :
        /\ Frames[t].call = "delete" /\ Frames[t].pc = "zrem_index"
        /\ memory_index' = [memory_index EXCEPT ![RaceAgent] = ZRem(@, 1)]
        /\ Resume(t, [Frames[t] EXCEPT !.pc = "zrem_importance"])
        /\ UNCHANGED <<config, embeddings, redis_kv, redis_ttl, memory_importance,
                       pinecone_vectors, memory_cache, now, created, removed>>

\* lines 843-848: the cache copy is removed and the call returns True; the
\* frame records whether an update was in flight at that moment
DeleteReturn(t) ==
    /\ memory_cache' = cache_delete(memory_cache, RaceAgent, 1)
    /\ Resume(t, [Frames[t] EXCEPT
                    !.pc = "done", !.ret = Some(TRUE),
                    !.overlapped = \E o \in DOMAIN Frames :
                                      /\ Frames[o].call = "update"
                                      /\ Running(Frames[o])])

\* line 826: zrem on the importance index; without a vector index the call
\* runs on to its return
DeleteZremImportance ==
    \E t \in DOMAIN Frames :
        /\ Frames[t].call = "delete" /\ Frames[t].pc = "zrem_importance"
        /\ memory_importance' = [memory_importance EXCEPT ![RaceAgent] = ZRem(@, 1)]
        /\ IF pinecone_index
           THEN /\ Resume(t, [Frames[t] EXCEPT !.pc = "pinecone"])
                /\ UNCHANGED memory_cache
           ELSE DeleteReturn(t)
        /\ UNCHANGED <<config, embeddings, redis_kv, redis_ttl, memory_index,
                       pinecone_vectors, now, created, removed>>

\* lines 829-839: the delete on the vector index in the executor
DeletePinecone ==
    \E t \in DOMAIN Frames :
        /\ Frames[t].call = "delete" /\ Frames[t].pc = "pinecone"
        /\ pinecone_vectors' = PineconeDelete(pinecone_vectors, RaceAgent, 1)
        /\ DeleteReturn(t)
        /\ UNCHANGED <<config, embeddings, redis_kv, redis_ttl, memory_index,
                       memory_importance, now, created, removed>>

NextRace ==
    \/ StoreRace
    \/ UpdateGet \/ UpdateSet \/ UpdateZadd \/ UpdatePinecone
    \/ DeleteKey \/ DeleteZremIndex \/ DeleteZremImportance \/ DeletePinecone

SpecRace == InitRace /\ [][NextRace]_vars

AllReturned == \A t \in DOMAIN Frames : ~Running(Frames[t])

\* C35: no lost update. When two update_memory_importance calls on the same
\* record, with disjoint metadata_updates keys, have run interleaved at their
\* awaits and both have returned True, the record of the primary store has the
\* keys of both updates in its metadata and its importance is the score of
\* its id in the importance index.
C35_NoLostUpdate ==
    \A s, t \in DOMAIN Frames :
        (/\ AllReturned
         /\ s # t
         /\ \A o \in DOMAIN Frames : Frames[o].call = "update"
         /\ Frames[s].ret = Some(TRUE) /\ Frames[t].ret = Some(TRUE)
         /\ DOMAIN Frames[s].metadata_updates \cap DOMAIN Frames[t].metadata_updates = {})
        => /\ RaceKey \in DOMAIN redis_kv
           /\ LET memory == json_loads(redis_kv[RaceKey])
              IN /\ DOMAIN Frames[s].metadata_updates \subseteq DOMAIN memory.metadata
                 /\ DOMAIN Frames[t].metadata_updates \subseteq DOMAIN memory.metadata
                 /\ 1 \in DOMAIN memory_importance[RaceAgent]
                 /\ memory_importance[RaceAgent][1] = memory.importance

\* C36: a deleted memory is not resurrected. When delete_memory has returned
\* True while an update_memory_importance of the same id was in flight, then
\* once every call has returned the primary store holds no record for the id
\* and neither index contains it.
C36_NoResurrection ==
    (/\ AllReturned
     /\ \E t \in DOMAIN Frames :
           /\ Frames[t].call = "delete"
           /\ Frames[t].ret = Some(TRUE)
           /\ Frames[t].overlapped)
    => /\ RaceKey \notin DOMAIN redis_kv
       /\ 1 \notin DOMAIN memory_index[RaceAgent]
       /\ 1 \notin DOMAIN memory_importance[RaceAgent]

\* C37: retention survives updates. A store_memory call in which nothing fails
\* leaves its record in the primary store with a TTL, explicit or derived from
\* the importance, and an update_memory_importance call in which nothing
\* fails leaves every record that had a TTL with a TTL.
C37_RetentionKept ==
    [][(last' # last /\ last'.op \in {"store_memory", "update_memory_importance"}
        /\ last'.flt = NoFault /\ redis_client)
       => /\ last'.op = "store_memory"
             => <<last'.agent_id, last'.memory_id>> \in DOMAIN redis_ttl'
          /\ \A key \in DOMAIN redis_kv' :
                key \in DOMAIN redis_ttl => key \in DOMAIN redis_ttl']_vars

\* C38: an expired memory stays forgotten. With the primary store available,
\* get_memory for the id of a record that the store has removed by TTL expiry
\* (the id is still in the recency index, its key is gone) reports not-found.
C38_ExpiredForgotten ==
    [][(/\ last' # last
        /\ last'.op = "get_memory"
        /\ redis_client
        /\ last'.flt = NoFault
        /\ last'.memory_id \in DOMAIN memory_index[last'.agent_id]
        /\ <<last'.agent_id, last'.memory_id>> \notin DOMAIN redis_kv)
       => last'.ret = None]_vars

-----------------------------------------------------------------------------
(* Reads across an outage of the primary store: every call finds Redis
   reachable or not (its first command raises) *)

MaxOutage == 3      \* store_memory calls per run of SpecOutage

InitOutage ==
    \E redis \in BOOLEAN : InitWith([redis |-> redis, client |-> FALSE, index |-> FALSE])

StoreOutage ==
    /\ Len(created) < MaxOutage
    /\ \E flt \in RedisFaults(1) :
          StoreMemory("a1", Len(created) + 1, ListPayload(50), flt)

GetOutage ==
    \E id \in 1..MaxOutage, flt \in RedisFaults(1) : GetMemory("a1", id, flt)

\* no filter, and a limit no smaller than the number of records
RecentOutage ==
    \E flt \in RedisFaults(1) :
        RetrieveRecentMemories("a1", MaxOutage, None, EmptyDict, flt)

NextOutage == StoreOutage \/ GetOutage \/ RecentOutage

SpecOutage == InitOutage /\ [][NextOutage]_vars

\* C39: get_memory and the list operations agree across an outage. After
\* stores made with the primary store reachable or not, a record that
\* get_memory returns for an agent is among the records that a
\* retrieve_recent_memories made right after it, in the same state of the
\* primary store, with no filter and a limit no smaller than the number of the
\* agent's records, returns.
C39_GetWithinRecent ==
    [][(/\ last.op = "get_memory"
        /\ last.ret # None
        /\ last'.op = "retrieve_recent_memories"
        /\ last'.agent_id = last.agent_id
        /\ last'.flt = last.flt)
       => \E i \in DOMAIN last'.ret : last'.ret[i].id = last.ret[1].id]_vars

\* the agent has no record in the primary store, no entry in its indices and
\* no copy in the fallback cache
HasNoMemories(agent_id) ==
    /\ \A key \in DOMAIN redis_kv : key[1] # agent_id
    /\ memory_index[agent_id] = EmptyDict
    /\ memory_importance[agent_id] = EmptyDict
    /\ CachedIds(agent_id) = {}

\* C40: clear_agent_memories is idempotent and tier-independent. A call in
\* which nothing fails, for an agent that has no memories (never stored, or
\* just cleared), returns True and leaves the primary store, the indices and
\* the records of the cache as they are, with and without a primary store.
C40_ClearIdempotent ==
    [][(/\ last' # last
        /\ last'.op = "clear_agent_memories"
        /\ last'.flt = NoFault
        /\ HasNoMemories(last'.agent_id))
       => /\ last'.ret = TRUE
          /\ UNCHANGED <<redis_kv, redis_ttl, memory_index, memory_importance,
                         pinecone_vectors>>
          /\ \A agent_id \in Agents :
                CachedIds(agent_id)' = CachedIds(agent_id)]_vars

=============================================================================
